---------------------------- MODULE Spec2Model ----------------------------
(***************************************************************************)
(* The build-event pipe bridge of aspect-cli-legacy (package bep, type     *)
(* besPipe) as a state machine: the ingestion goroutine started by         *)
(* ServeWait, the per-record fan-out of publishBesEvent, the sink registry *)
(* with its health flags, the acknowledgment goroutines, the abort check   *)
(* maybeAbortPipeBecauseNoHealthyBackends, and the caller                  *)
(* createBesInterceptor that wires them together.                          *)
(*                                                                         *)
(* The sink object (besproxy.BESProxy) is used through its interface only; *)
(* its methods are modelled from the specification's data model: a health  *)
(* flag that starts true and only ever falls, and a stream that must be    *)
(* open for Send to deliver.                                               *)
(*                                                                         *)
(* Steps of one thread that touch nothing another thread reads are taken   *)
(* together with the step before them; every read or write of shared state *)
(* (the registry, a health flag, the Once, the FIFO) is a step of its own. *)
(***************************************************************************)
EXTENDS Integers, Sequences, FiniteSets, TLC

\* Bounds of the model.
MaxSubs == 2        \* subscribers registered in one session
MaxSinks == 2       \* sinks registered in one session
MaxRecords == 2     \* records decoded in one session
TimeoutTicks == 2   \* besEventGlobalTimeoutDuration, in ticks of the clock
MaxCallers == 3     \* goroutines calling RegisterBesProxy at the same time
MaxArgs == 3        \* arguments of a command line
MaxCycles == 4      \* calls of RestartBazelProtocol.Cycle
MaxCalls == 3       \* calls of IBazelProtocol.Cycle and Exit
MaxPlugins == 3     \* plugins in the configuration given to Configure
MaxCommands == 2    \* custom commands one plugin declares
MaxBase == 2        \* values in the base given to ParseSet
MaxSetArgs == 2     \* arguments given to ParseSet
MaxArgLen == 3      \* characters of an argument given to ParseSet

Subs == 1..MaxSubs
Sinks == 1..MaxSinks
Callers == 1..MaxCallers

\* The threads that run maybeAbortPipeBecauseNoHealthyBackends: the fan-out
\* task of a sink, the acknowledgment goroutine of a sink, the goroutine
\* waiting on ctx.Done().
Checkers == ({"task", "ack"} \X Sinks) \cup {<<"ctx", 0>>}

VARIABLES
    mainPc,       \* position of createBesInterceptor (the calling thread)
    subscribers,  \* bb.subscribers, in insertion order
    besProxies,   \* bb.besProxies
    healthy,      \* per sink: its health flag (BESProxy.Healthy)
    streamOpen,   \* per sink: its event stream was opened
    sinkLog,      \* per sink: the messages issued to it, in order
    sent,         \* per sink: the sequence numbers p.Send was called with
    failedAt,     \* per sink: the record whose send failed or timed out
    subLog,       \* per subscriber: the sequence numbers its callback got
    readerPc,     \* position of the ingestion goroutine of ServeWait
    finalIdx,     \* index of the normal-completion loop over bb.besProxies
    finalLen,     \* length of the slice that loop ranges over
    seqId,        \* streamBesEvents' sequence counter
    lastMessage,  \* event.LastMessage of the record being fanned out
    errors,       \* bb.errors
    subTask,      \* per subscriber: its errgroup task for the current record
    sinkTask,     \* per sink: its errgroup task for the current record
    lingering,    \* per sink: a Send outlives the task that timed out on it
    egErr,        \* the errgroup has recorded an error
    ackPc,        \* per sink: position of its acknowledgment goroutine
    scan,         \* per checker: len(bb.besProxies) as it entered the check
    cancelled,    \* ctx.Done() is closed
    watchPc,      \* the goroutine of ServeWait that waits on ctx.Done()
    pipeAborted,  \* the sync.Once has run
    unlinkCount,  \* calls of syscall.Unlink made by the abort check
    pipeExists,   \* the FIFO path exists
    removed,      \* GracefulStop has called os.Remove
    abortSaw,     \* history: slice length of the check that unlinked, or 0
    healthyAtEnd, \* history: the sinks healthy when the stream finished
    idle,         \* ticks of the clock since besEventGlobalTimeout was armed
    cbFailed,     \* history: a subscriber callback has returned an error
    carried,      \* history: the stream ids of the requests issued to sinks
    besBuildId,   \* the build id given to NewBESPipe
    besInvocationId, \* the invocation id given to NewBESPipe
    regPc,        \* per caller: position of a concurrent RegisterBesProxy
    regSeen,      \* per caller: the slice its append has read
    rangePc,      \* position of a loop over bb.besProxies
    rangeSeen,    \* the slice that loop ranges over
    visited,      \* the sinks that loop has visited, in order
    attachPc,     \* position of a RegisterBesProxy called mid-session
    args,         \* the command line given to removeLastBesBackend
    ret,          \* what removeLastBesBackend returned, or that it panicked
    runCmd,       \* RestartBazelProtocol.runCmd: 0 for nil, or the process
    restartPc,    \* position of the goroutine that calls Cycle
    proc,         \* the process kill hands to terminate
    termErr,      \* the variable err of terminate
    killTimer,    \* the goroutine of terminate that waits to send SIGKILL
    alive,        \* the process p is running
    cycles,       \* calls of Cycle that have returned
    cycleRet,     \* what the last call of Cycle returned
    stdin,        \* IBazelProtocol.stdin is not nil
    stream,       \* what has been written to stdin, piece by piece
    ibPc,         \* position of the goroutine that calls Cycle or Exit
    ibCall,       \* the call under way or returned last, and its argument
    ibRet,        \* what that call returned
    ibCalls,      \* calls of Cycle and Exit that have returned
    plugins,      \* the plugins of the configuration Configure has parsed
    setupPc,      \* per plugin: position of its goroutine in Configure
    mutex,        \* the mutex of Configure: 0, or the goroutine holding it
    head,         \* PluginList.head: 0 for nil, or a node
    tail,         \* PluginList.tail: 0 for nil, or a node
    next,         \* per node: PluginNode.next, 0 for nil
    configureRet, \* what Configure returned
    bpPc,         \* position of a call of the BESPluginInterceptor
    forceBesBackend, \* the value of --aspect:force_bes_backend
    usePipeEnv,   \* the value of ASPECT_BEP_USE_PIPE
    disableBES,   \* per plugin: payload.DisableBESEvents
    besInterceptor, \* the interceptor created: "none", "pipe" or "grpc"
    besSubscribers, \* the plugins given to RegisterSubscriber, in order
    nextCtx,      \* the interceptor in the ctx given to next
    nextErr,      \* what next returned
    stopped,      \* GracefulStop has been called
    bpRet,        \* what the BESPluginInterceptor returned
    setBase,      \* the base given to ParseSet
    setArgs,      \* the args given to ParseSet
    setRes,       \* what ParseSet returned
    commands,     \* cmd.Commands(): the Use of each command, in order
    internalCommands, \* the names RegisterCustomCommands protects
    customPc,     \* position of the call of RegisterCustomCommands
    customNode,   \* the node of its loop over the plugins, 0 for nil
    declared,     \* history: what CustomCommands returned, per plugin asked
    customRet,    \* what RegisterCustomCommands returned
    hookPc,       \* position of a call of the command hooks interceptor
    hookNode,     \* the node of its loop over the plugins, 0 for nil
    hooksRun,     \* history: the plugins whose hook was called, in order
    hasPluginErrors, \* the variable of the deferred function
    hookNext,     \* history: what next returned
    exitErr       \* the named result of the interceptor

\* The state of the bridge in a session wired by createBesInterceptor.
bridgeVars == <<mainPc, subscribers, besProxies, healthy, streamOpen, sinkLog,
          sent, failedAt, subLog, readerPc, finalIdx, finalLen, seqId,
          lastMessage, errors, subTask, sinkTask, lingering, egErr, ackPc,
          scan, cancelled, watchPc, pipeAborted, unlinkCount, pipeExists,
          removed, abortSaw, healthyAtEnd, idle, cbFailed, carried>>

\* The state of callers that use the registry concurrently.
callerVars == <<regPc, regSeen, rangePc, rangeSeen, visited>>

\* What no step of a session wired by createBesInterceptor touches.
\* The call of removeLastBesBackend.
argsVars == <<args, ret>>

\* The correlation identifiers of the session.
idVars == <<besBuildId, besInvocationId>>

\* The state of a RestartBazelProtocol and of a call of Cycle.
restartVars == <<runCmd, restartPc, proc, termErr, killTimer, alive, cycles,
                 cycleRet>>

\* The state of an IBazelProtocol and of a call of Cycle or Exit.
ibazelVars == <<stdin, stream, ibPc, ibCall, ibRet, ibCalls>>

\* The plugin list and a call of Configure.
configureVars == <<plugins, setupPc, mutex, head, tail, next, configureRet>>

\* A call of the function BESPluginInterceptor returns.
besPluginVars == <<bpPc, forceBesBackend, usePipeEnv, disableBES,
                   besInterceptor, besSubscribers, nextCtx, nextErr, stopped,
                   bpRet>>

\* The call of ParseSet.
setVars == <<setBase, setArgs, setRes>>

\* The commands of the CLI and the call of RegisterCustomCommands.
customVars == <<commands, internalCommands, customPc, customNode, declared,
                customRet>>

\* A call of the function commandHooksInterceptor returns.
hookVars == <<hookPc, hookNode, hooksRun, hasPluginErrors, hookNext, exitErr>>

sideVars == <<callerVars, attachPc, argsVars, idVars, restartVars,
              ibazelVars, configureVars, besPluginVars, setVars, customVars,
              hookVars>>

vars == <<bridgeVars, sideVars>>

\* Groups of variables, for UNCHANGED.
registryVars == <<subscribers, besProxies>>
destVars == <<healthy, streamOpen, sinkLog, sent, failedAt, subLog>>
readerVars == <<readerPc, finalIdx, finalLen, seqId, lastMessage, errors,
                healthyAtEnd, idle>>
taskVars == <<subTask, sinkTask, lingering, egErr, cbFailed>>
ctxVars == <<cancelled, watchPc>>
pipeVars == <<pipeAborted, unlinkCount, pipeExists, removed, abortSaw>>

\* The elements of a sequence.
Range(s) == {s[i] : i \in 1..Len(s)}

\* The messages a sink is issued: the lifecycle requests with their sequence
\* numbers, the envelope of record k, and the closing of the stream.
Enqueued == <<"enqueued", 1>>
Started == <<"started", 2>>
Finished == <<"finished", 2>>
CloseSend == <<"closeSend", 0>>
Envelope(k) == <<"event", k>>

\* NewBESPipe followed by a successful Setup: empty registries, the FIFO
\* created, nothing started.
InitSession ==
    /\ mainPc = "serve"
    /\ subscribers = <<>>
    /\ besProxies = <<>>
    /\ healthy = [s \in Sinks |-> TRUE]
    /\ streamOpen = [s \in Sinks |-> FALSE]
    /\ sinkLog = [s \in Sinks |-> <<>>]
    /\ sent = [s \in Sinks |-> <<>>]
    /\ failedAt = [s \in Sinks |-> 0]
    /\ subLog = [u \in Subs |-> <<>>]
    /\ readerPc = "none"
    /\ finalIdx = 0
    /\ finalLen = 0
    /\ seqId = 0
    /\ lastMessage = FALSE
    /\ errors = <<>>
    /\ subTask = [u \in Subs |-> "idle"]
    /\ sinkTask = [s \in Sinks |-> "idle"]
    /\ lingering = [s \in Sinks |-> FALSE]
    /\ egErr = FALSE
    /\ ackPc = [s \in Sinks |-> "none"]
    /\ scan = [c \in Checkers |-> 0]
    /\ cancelled = FALSE
    /\ watchPc = "none"
    /\ pipeAborted = FALSE
    /\ unlinkCount = 0
    /\ pipeExists = TRUE
    /\ removed = FALSE
    /\ abortSaw = 0
    /\ healthyAtEnd = {}
    /\ idle = 0
    /\ cbFailed = FALSE
    /\ regPc = [c \in Callers |-> "call"]
    /\ regSeen = [c \in Callers |-> <<>>]
    /\ rangePc = "idle"
    /\ rangeSeen = <<>>
    /\ visited = <<>>
    /\ attachPc = "idle"
    /\ carried = {}
    /\ besBuildId = "build id"
    /\ besInvocationId = "invocation id"
    /\ runCmd = 0
    /\ restartPc = "idle"
    /\ proc = 0
    /\ termErr = "nil"
    /\ killTimer = "off"
    /\ alive = FALSE
    /\ cycles = 0
    /\ cycleRet = "none"
    /\ stdin = FALSE
    /\ stream = <<>>
    /\ ibPc = "idle"
    /\ ibCall = [op |-> "none", errIsNil |-> TRUE]
    /\ ibRet = "none"
    /\ ibCalls = 0
    /\ plugins = {}
    /\ setupPc = [g \in 1..MaxPlugins |-> "none"]
    /\ mutex = 0
    /\ head = 0
    /\ tail = 0
    /\ next = [g \in 1..MaxPlugins |-> 0]
    /\ configureRet = "none"
    /\ bpPc = "idle"
    /\ forceBesBackend = FALSE
    /\ usePipeEnv = ""
    /\ disableBES = [g \in 1..MaxPlugins |-> FALSE]
    /\ besInterceptor = "none"
    /\ besSubscribers = <<>>
    /\ nextCtx = "not called"
    /\ nextErr = "none"
    /\ stopped = FALSE
    /\ bpRet = "none"
    /\ commands = <<<<"build", "<target>">>, <<"test">>>>
    /\ internalCommands = {}
    /\ customPc = "idle"
    /\ customNode = 0
    /\ declared = <<>>
    /\ customRet = "none"
    /\ hookPc = "idle"
    /\ hookNode = 0
    /\ hooksRun = <<>>
    /\ hasPluginErrors = FALSE
    /\ hookNext = [kind |-> "not called", code |-> 0]
    /\ exitErr = [kind |-> "nil", code |-> 0]

\* No call of removeLastBesBackend is under way.
NotCalled == [status |-> "not called"]

\* No call of ParseSet is under way.
NoParseSet ==
    /\ setBase = <<>>
    /\ setArgs = <<>>
    /\ setRes = NotCalled

\* The state after construction.
Init ==
    /\ InitSession
    /\ args = <<>>
    /\ ret = NotCalled
    /\ NoParseSet

-----------------------------------------------------------------------------
(* The sink's own methods (besproxy.BESProxy).                             *)

\* MarkUnhealthy: the flag falls; nothing raises it again.
MarkUnhealthy(p) ==
    healthy' = [healthy EXCEPT ![p] = FALSE]

\* Recv returns end-of-stream, a cancellation or another error: the sink is
\* unhealthy from then on.
RecvFails(p) == MarkUnhealthy(p)

\* Send can deliver only on an open stream.
SendCanDeliver(p) == streamOpen[p]

\* PublishLifecycleEvent and CloseSend: the requests are issued to the sink
\* in order; the code drops the results.
\* A faulty variant: the invocation id of a request is made per record.
StreamIdPerRecord ==
    <<besBuildId, IF seqId = 0 THEN besInvocationId ELSE "another id">>

\* StreamId{BuildId: bb.besBuildId, InvocationId: bb.besInvocationId}, which
\* lifecycleRequest and publishBesEvent put into every request.
StreamId == <<besBuildId, besInvocationId>>

Issue(p, msgs) ==
    /\ sinkLog' = [sinkLog EXCEPT ![p] = @ \o msgs]
    /\ carried' = carried \cup {StreamId}

-----------------------------------------------------------------------------
(* The calling thread: createBesInterceptor.                               *)

\* ServeWait: wg.Add(1) and the ingestion goroutine is started.
ServeWait ==
    /\ mainPc = "serve"
    /\ mainPc' = "subs"
    /\ readerPc' = "start"
    /\ UNCHANGED <<registryVars, destVars, finalIdx, finalLen, seqId,
                   lastMessage, errors, healthyAtEnd, idle, taskVars, ackPc,
                   scan, ctxVars, pipeVars>>
    /\ UNCHANGED <<carried, sideVars>>

\* subscriberList.Insert: the callback goes to the end of the list.
Insert(list, u) == Append(list, u)

\* A faulty variant: a plugin is registered after the build tool was started.
RegisterSubscriberLate ==
    /\ mainPc \in {"subs", "next"}
    /\ Len(subscribers) < MaxSubs
    /\ subscribers' = Insert(subscribers, Len(subscribers) + 1)
    /\ UNCHANGED <<mainPc, besProxies, destVars, readerVars, taskVars, ackPc,
                   scan, ctxVars, pipeVars>>
    /\ UNCHANGED <<carried, sideVars>>

\* RegisterSubscriber: one call of the loop over the plugins.
RegisterSubscriber ==
    /\ mainPc = "subs"
    /\ Len(subscribers) < MaxSubs
    /\ subscribers' = Insert(subscribers, Len(subscribers) + 1)
    /\ UNCHANGED <<mainPc, besProxies, destVars, readerVars, taskVars, ackPc,
                   scan, ctxVars, pipeVars>>
    /\ UNCHANGED <<carried, sideVars>>

\* The loop over the plugins ends.
SubscribersDone ==
    /\ mainPc = "subs"
    /\ mainPc' = "proxies"
    /\ UNCHANGED <<registryVars, destVars, readerVars, taskVars, ackPc, scan,
                   ctxVars, pipeVars>>
    /\ UNCHANGED <<carried, sideVars>>

\* The sink RegisterBesProxy is working on: the one it appended.
Registering == besProxies[Len(besProxies)]

\* RegisterBesProxy, first statement: the sink is appended to bb.besProxies.
RegisterBesProxy ==
    /\ mainPc = "proxies"
    /\ Len(besProxies) < MaxSinks
    /\ besProxies' = Append(besProxies, Len(besProxies) + 1)
    /\ mainPc' = "reg_lifecycle"
    /\ UNCHANGED <<subscribers, destVars, readerVars, taskVars, ackPc, scan,
                   ctxVars, pipeVars>>
    /\ UNCHANGED <<carried, sideVars>>

\* A faulty variant: the two opening brackets in the wrong order.
InitialLifecycleEventsStartedFirst == <<Started, Enqueued>>

\* sendInitialLifecycleEvents: "build enqueued" with sequence number 1, then
\* "invocation attempt started" with sequence number 2.
InitialLifecycleEvents == <<Enqueued, Started>>

\* RegisterBesProxy calls sendInitialLifecycleEvents.
SendInitialLifecycleEvents ==
    /\ mainPc = "reg_lifecycle"
    /\ Issue(Registering, InitialLifecycleEvents)
    /\ mainPc' = "reg_stream"
    /\ UNCHANGED <<registryVars, healthy, streamOpen, sent, failedAt, subLog,
                   readerVars, taskVars, ackPc, scan, ctxVars, pipeVars>>
    /\ UNCHANGED sideVars

\* PublishBuildToolEventStream succeeds: the stream is open, the
\* acknowledgment goroutine is started and RegisterBesProxy returns.
OpenStream ==
    /\ mainPc = "reg_stream"
    /\ streamOpen' = [streamOpen EXCEPT ![Registering] = TRUE]
    /\ ackPc' = [ackPc EXCEPT ![Registering] = "loop"]
    /\ mainPc' = "proxies"
    /\ UNCHANGED <<registryVars, healthy, sinkLog, sent, failedAt, subLog,
                   readerVars, taskVars, scan, ctxVars, pipeVars>>
    /\ UNCHANGED <<carried, sideVars>>

\* PublishBuildToolEventStream fails: RegisterBesProxy prints and returns; the
\* sink stays in bb.besProxies without a stream and without a listener.
OpenStreamFails ==
    /\ mainPc = "reg_stream"
    /\ mainPc' = "proxies"
    /\ UNCHANGED <<registryVars, destVars, readerVars, taskVars, ackPc, scan,
                   ctxVars, pipeVars>>
    /\ UNCHANGED <<carried, sideVars>>

\* next(ctx, cmd, args): the build tool is started.
RunNext ==
    /\ mainPc = "proxies"
    /\ mainPc' = "next"
    /\ UNCHANGED <<registryVars, destVars, readerVars, taskVars, ackPc, scan,
                   ctxVars, pipeVars>>
    /\ UNCHANGED <<carried, sideVars>>

\* A faulty variant: GracefulStop does not wait for the ingestion goroutine.
WaitGroupDoneNoWait == TRUE

\* bb.wg.Wait() returns once the ingestion goroutine has returned.
WaitGroupDone == readerPc = "done"

\* next has returned and the deferred GracefulStop runs: bb.wg.Wait(), then
\* os.Remove(bb.bepBinPath).
GracefulStop ==
    /\ mainPc = "next"
    /\ WaitGroupDone
    /\ removed' = TRUE
    /\ pipeExists' = FALSE
    /\ mainPc' = "done"
    /\ UNCHANGED <<registryVars, destVars, readerVars, taskVars, ackPc, scan,
                   ctxVars, pipeAborted, unlinkCount, abortSaw>>
    /\ UNCHANGED <<carried, sideVars>>

-----------------------------------------------------------------------------
(* maybeAbortPipeBecauseNoHealthyBackends, run by a checker c.             *)

\* The checker's thread is inside the abort check.
Checking(c) ==
    CASE c[1] = "task" -> sinkTask[c[2]] = "check"
      [] c[1] = "ack" -> ackPc[c[2]] = "check"
      [] OTHER -> watchPc = "check"

\* The checker's thread enters the abort check. The check reads the slice
\* bb.besProxies no earlier than now.
EnterCheck(c) ==
    scan' = [scan EXCEPT ![c] = Len(besProxies)]

\* The abort check returns to its caller, which then ends: the fan-out task
\* returns nil, the acknowledgment goroutine and the ctx goroutine exit.
CheckReturns(c) ==
    /\ scan' = [scan EXCEPT ![c] = 0]
    /\ sinkTask' = IF c[1] = "task" THEN [sinkTask EXCEPT ![c[2]] = "done"]
                   ELSE sinkTask
    /\ ackPc' = IF c[1] = "ack" THEN [ackPc EXCEPT ![c[2]] = "done"] ELSE ackPc
    /\ watchPc' = IF c[1] = "ctx" THEN "done" ELSE watchPc

\* A faulty variant: the loop keeps the flag of the last sink only.
AnyHealthyLastOnly(n) == healthy[besProxies[n]]

\* The loop over the n sinks of the slice: is any of them healthy?
AnyHealthy(n) == \E i \in 1..n : healthy[besProxies[i]]

\* A faulty variant: no Once, every check that finds no healthy sink unlinks.
PipeAbortedDoEveryTime(n) ==
    /\ pipeAborted' = TRUE
    /\ unlinkCount' = unlinkCount + 1
    /\ abortSaw' = n
    /\ pipeExists' = FALSE

\* bb.pipeAborted.Do(f): f runs if the Once has not run yet, and unlinks the
\* FIFO.
PipeAbortedDo(n) ==
    /\ pipeAborted' = TRUE
    /\ unlinkCount' = IF pipeAborted THEN unlinkCount ELSE unlinkCount + 1
    /\ abortSaw' = IF pipeAborted THEN abortSaw ELSE n
    /\ pipeExists' = FALSE

\* The whole check: return on an empty slice; the loop over the slice; return
\* if a sink was healthy; the Once otherwise. n is the length of the slice
\* when the check read it, some time between entering the check and now (the
\* slice only grows). The loop reads one flag per iteration; a flag only
\* falls, so a loop that finds no healthy sink would find none at any later
\* instant, and one that finds a healthy sink returns on reading it: the
\* check is one step, taken at the instant of its last read or of the Once.
AbortCheck(c) ==
    /\ Checking(c)
    /\ \E n \in scan[c]..Len(besProxies) :
        IF n = 0 \/ AnyHealthy(n)
        THEN UNCHANGED <<pipeAborted, unlinkCount, pipeExists, abortSaw>>
        ELSE PipeAbortedDo(n)
    /\ CheckReturns(c)
    /\ UNCHANGED <<mainPc, registryVars, destVars, readerVars, subTask,
                   lingering, egErr, cbFailed, cancelled, removed>>
    /\ UNCHANGED <<carried, sideVars>>

-----------------------------------------------------------------------------
(* The context.                                                            *)

\* The session context is cancelled.
Cancel ==
    /\ ~cancelled
    /\ mainPc # "done"
    /\ cancelled' = TRUE
    /\ UNCHANGED <<mainPc, registryVars, destVars, readerVars, taskVars,
                   ackPc, scan, watchPc, pipeVars>>
    /\ UNCHANGED <<carried, sideVars>>

\* The goroutine of ServeWait: <-ctx.Done(), then the abort check.
WatchCtxDone ==
    /\ watchPc = "wait"
    /\ cancelled
    /\ watchPc' = "check"
    /\ EnterCheck(<<"ctx", 0>>)
    /\ UNCHANGED <<mainPc, registryVars, destVars, readerVars, taskVars,
                   ackPc, cancelled, pipeVars>>
    /\ UNCHANGED <<carried, sideVars>>

-----------------------------------------------------------------------------
(* The ingestion goroutine started by ServeWait.                           *)

\* A faulty variant: the goroutine returns without recording the error.
FailNotRecorded(err) ==
    /\ errors' = errors
    /\ readerPc' = "done"
    /\ idle' = 0

\* bb.errors.Insert(err) and the goroutine returns (wg.Done); the timer of
\* streamBesEvents is out of scope.
Fail(err) ==
    /\ errors' = Append(errors, err)
    /\ readerPc' = "done"
    /\ idle' = 0

\* The goroutine starts: it starts the ctx goroutine and calls os.OpenFile,
\* which fails if the FIFO is gone and otherwise blocks until a writer opens
\* the FIFO.
OpenFile ==
    /\ readerPc = "start"
    /\ watchPc' = "wait"
    /\ IF pipeExists
       THEN /\ readerPc' = "open"
            /\ UNCHANGED <<errors, idle>>
       ELSE Fail("accept")
    /\ UNCHANGED <<mainPc, registryVars, destVars, finalIdx, finalLen, seqId,
                   lastMessage, healthyAtEnd, taskVars, ackPc, scan, cancelled,
                   pipeVars>>
    /\ UNCHANGED <<carried, sideVars>>

\* The build tool, started by next, opens the FIFO for writing: OpenFile
\* returns and streamBesEvents begins.
ProducerOpens ==
    /\ readerPc = "open"
    /\ mainPc = "next"
    /\ pipeExists
    /\ readerPc' = "read"
    /\ UNCHANGED <<mainPc, registryVars, destVars, finalIdx, finalLen, seqId,
                   lastMessage, errors, healthyAtEnd, idle, taskVars, ackPc,
                   scan, ctxVars, pipeVars>>
    /\ UNCHANGED <<carried, sideVars>>

\* A faulty variant: the counter is incremented twice per record.
NextSeqIdTwice == seqId + 2

\* seqId++
NextSeqId == seqId + 1

\* A faulty variant: only the head of the list gets a task.
SubscriberTasksHeadOnly ==
    [u \in Subs |-> IF subscribers # <<>> /\ u = subscribers[1]
                    THEN "run" ELSE "idle"]

\* publishBesEvent, first loop: one task per subscriber of the list.
SubscriberTasks ==
    [u \in Subs |-> IF u \in Range(subscribers) THEN "run" ELSE "idle"]

\* publishBesEvent, second loop: one task per sink of bb.besProxies.
ProxyTasks ==
    [s \in Sinks |-> IF s \in Range(besProxies) THEN "start" ELSE "idle"]

\* UnmarshalFrom decodes a record: the counter is incremented and
\* publishBesEvent starts the record's tasks.
ReadRecord(last) ==
    /\ readerPc = "read"
    /\ seqId < MaxRecords
    /\ seqId' = NextSeqId
    /\ lastMessage' = last
    /\ subTask' = SubscriberTasks
    /\ sinkTask' = ProxyTasks
    /\ egErr' = FALSE
    /\ idle' = 0
    /\ readerPc' = "wait"
    /\ UNCHANGED <<mainPc, registryVars, destVars, finalIdx, finalLen, errors,
                   healthyAtEnd, lingering, cbFailed, ackPc, scan,
                   ctxVars, pipeVars>>
    /\ UNCHANGED <<carried, sideVars>>

\* The producer holds the FIFO open and writes nothing: UnmarshalFrom is
\* blocked in the read of conn, which has no deadline before ctx.Done(), and
\* the clock goes on, besEventGlobalTimeout fired or not.
ReadBlocked ==
    /\ readerPc = "read"
    /\ idle <= TimeoutTicks
    /\ idle' = idle + 1
    /\ UNCHANGED <<mainPc, registryVars, destVars, readerPc, finalIdx, finalLen,
                   seqId, lastMessage, errors, healthyAtEnd,
                   taskVars, ackPc, scan, ctxVars, pipeVars>>
    /\ UNCHANGED <<carried, sideVars>>

\* No producer holds the FIFO open: UnmarshalFrom returns io.EOF (no data),
\* besEventGlobalTimeout has not fired, and the reader sleeps
\* besEventThrottleDuration and reads again, while the clock goes on.
ReadThrottle ==
    /\ readerPc = "read"
    /\ idle < TimeoutTicks
    /\ idle' = idle + 1
    /\ UNCHANGED <<mainPc, registryVars, destVars, readerPc, finalIdx, finalLen,
                   seqId, lastMessage, errors, healthyAtEnd,
                   taskVars, ackPc, scan, ctxVars, pipeVars>>
    /\ UNCHANGED <<carried, sideVars>>

\* No producer holds the FIFO open: UnmarshalFrom returns io.EOF (no data),
\* and besEventGlobalTimeout has fired.
ReadGlobalTimeout ==
    /\ readerPc = "read"
    /\ idle >= TimeoutTicks
    /\ Fail("timeout")
    /\ UNCHANGED <<mainPc, registryVars, destVars, finalIdx, finalLen, seqId,
                   lastMessage, healthyAtEnd, taskVars, ackPc, scan, ctxVars,
                   pipeVars>>
    /\ UNCHANGED <<carried, sideVars>>

\* A faulty variant: on ctx.Done() streamBesEvents returns nil, as at the end
\* of the stream.
ReadDeadlineReturnsNil ==
    /\ readerPc = "read"
    /\ cancelled
    /\ readerPc' = "final"
    /\ finalIdx' = 1
    /\ finalLen' = Len(besProxies)
    /\ idle' = 0
    /\ UNCHANGED <<mainPc, registryVars, destVars, seqId, lastMessage, errors,
                   healthyAtEnd, taskVars, ackPc, scan, ctxVars, pipeVars>>
    /\ UNCHANGED <<carried, sideVars>>

\* A faulty variant: no read deadline is set when the context is done.
ReadWithoutDeadline == FALSE /\ UNCHANGED vars

\* The goroutine of streamBesEvents has seen ctx.Done() and set the read
\* deadline gracePeriodDuration ahead; the deadline passes and UnmarshalFrom
\* returns os.ErrDeadlineExceeded.
ReadDeadlineExceeded ==
    /\ readerPc = "read"
    /\ cancelled
    /\ Fail("deadline")
    /\ UNCHANGED <<mainPc, registryVars, destVars, finalIdx, finalLen, seqId,
                   lastMessage, healthyAtEnd, taskVars, ackPc, scan, ctxVars,
                   pipeVars>>
    /\ UNCHANGED <<carried, sideVars>>

\* A faulty variant: the failed decode is recorded and taken for the end of
\* the stream, so that the normal-completion loop runs.
ReadMalformedEndsStream ==
    /\ readerPc = "read"
    /\ errors' = Append(errors, "parse")
    /\ readerPc' = "final"
    /\ finalIdx' = 1
    /\ finalLen' = Len(besProxies)
    /\ idle' = 0
    /\ UNCHANGED <<mainPc, registryVars, destVars, seqId, lastMessage,
                   healthyAtEnd, taskVars, ackPc, scan, ctxVars, pipeVars>>
    /\ UNCHANGED <<carried, sideVars>>

\* UnmarshalFrom returns any other error: a malformed or over-size record.
ReadMalformed ==
    /\ readerPc = "read"
    /\ Fail("parse")
    /\ UNCHANGED <<mainPc, registryVars, destVars, finalIdx, finalLen, seqId,
                   lastMessage, healthyAtEnd, taskVars, ackPc, scan, ctxVars,
                   pipeVars>>
    /\ UNCHANGED <<carried, sideVars>>

\* A subscriber's task: cb(event, seqId, invocationId), whose error, if any,
\* is the task's result.
SubscriberCallback(u, ok) ==
    /\ subTask[u] = "run"
    /\ subLog' = [subLog EXCEPT ![u] = Append(@, seqId)]
    /\ egErr' = (egErr \/ ~ok)
    /\ cbFailed' = (cbFailed \/ ~ok)
    /\ subTask' = [subTask EXCEPT ![u] = "done"]
    /\ UNCHANGED <<mainPc, registryVars, healthy, streamOpen, sinkLog, sent,
                   failedAt, readerVars, sinkTask, lingering, ackPc, scan,
                   ctxVars, pipeVars>>
    /\ UNCHANGED <<carried, sideVars>>

\* A faulty variant: the task does not look at the health flag.
SinkTaskSendAlways(s) ==
    /\ sinkTask[s] = "start"
    /\ sent' = [sent EXCEPT ![s] = Append(@, seqId)]
    /\ sinkTask' = [sinkTask EXCEPT ![s] = "wait"]
    /\ UNCHANGED <<mainPc, registryVars, healthy, streamOpen, sinkLog, failedAt,
                   subLog, readerVars, subTask, lingering, egErr, cbFailed,
                   ackPc, scan, ctxVars, pipeVars>>
    /\ UNCHANGED <<carried, sideVars>>

\* A sink's task: an unhealthy sink is skipped; for a healthy one the
\* goroutine calling p.Send(grpcEvent) is started and the task waits.
SinkTaskSend(s) ==
    /\ sinkTask[s] = "start"
    /\ IF healthy[s]
       THEN /\ sent' = [sent EXCEPT ![s] = Append(@, seqId)]
            /\ sinkTask' = [sinkTask EXCEPT ![s] = "wait"]
       ELSE /\ sinkTask' = [sinkTask EXCEPT ![s] = "done"]
            /\ UNCHANGED sent
    /\ UNCHANGED <<mainPc, registryVars, healthy, streamOpen, sinkLog, failedAt,
                   subLog, readerVars, subTask, lingering, egErr, cbFailed,
                   ackPc, scan, ctxVars, pipeVars>>
    /\ UNCHANGED <<carried, sideVars>>

\* The sequence number of the sink's latest Send.
Sending(s) == sent[s][Len(sent[s])]

\* A faulty variant: a send that succeeds raises the health flag again.
SinkTaskSentRaisesHealth(s) ==
    /\ sinkTask[s] = "wait"
    /\ SendCanDeliver(s)
    /\ Issue(s, <<Envelope(Sending(s))>>)
    /\ healthy' = [healthy EXCEPT ![s] = TRUE]
    /\ sinkTask' = [sinkTask EXCEPT ![s] = "done"]
    /\ UNCHANGED <<mainPc, registryVars, streamOpen, sent, failedAt, subLog,
                   readerVars, subTask, lingering, egErr, cbFailed, ackPc, scan,
                   ctxVars, pipeVars>>
    /\ UNCHANGED sideVars

\* select, case err := <-sendCh with err == nil: Send has delivered the
\* envelope and the task returns nil.
SinkTaskSent(s) ==
    /\ sinkTask[s] = "wait"
    /\ SendCanDeliver(s)
    /\ Issue(s, <<Envelope(Sending(s))>>)
    /\ sinkTask' = [sinkTask EXCEPT ![s] = "done"]
    /\ UNCHANGED <<mainPc, registryVars, healthy, streamOpen, sent, failedAt,
                   subLog, readerVars, subTask, lingering, egErr, cbFailed,
                   ackPc, scan, ctxVars, pipeVars>>
    /\ UNCHANGED sideVars

\* A faulty variant: the task returns the error of Send to the errgroup.
SinkTaskSendErrorReturned(s) ==
    /\ sinkTask[s] = "wait"
    /\ MarkUnhealthy(s)
    /\ failedAt' = [failedAt EXCEPT ![s] = seqId]
    /\ sinkTask' = [sinkTask EXCEPT ![s] = "check"]
    /\ EnterCheck(<<"task", s>>)
    /\ egErr' = TRUE
    /\ UNCHANGED <<mainPc, registryVars, streamOpen, sinkLog, sent, subLog,
                   readerVars, subTask, lingering, cbFailed, ackPc, ctxVars,
                   pipeVars>>
    /\ UNCHANGED <<carried, sideVars>>

\* select, case err := <-sendCh with err != nil: the sink is marked unhealthy
\* and the abort check runs.
SinkTaskSendError(s) ==
    /\ sinkTask[s] = "wait"
    /\ MarkUnhealthy(s)
    /\ failedAt' = [failedAt EXCEPT ![s] = seqId]
    /\ sinkTask' = [sinkTask EXCEPT ![s] = "check"]
    /\ EnterCheck(<<"task", s>>)
    /\ UNCHANGED <<mainPc, registryVars, streamOpen, sinkLog, sent, subLog,
                   readerVars, subTask, lingering, egErr, cbFailed, ackPc,
                   ctxVars, pipeVars>>
    /\ UNCHANGED <<carried, sideVars>>

\* A faulty variant: the task waits for Send without a timeout.
SinkTaskNoTimeout(s) == FALSE /\ UNCHANGED vars

\* A faulty variant: the timeout marks the sink and returns without the
\* abort check.
SinkTaskTimeoutNoCheck(s) ==
    /\ sinkTask[s] = "wait"
    /\ MarkUnhealthy(s)
    /\ failedAt' = [failedAt EXCEPT ![s] = seqId]
    /\ lingering' = [lingering EXCEPT ![s] = TRUE]
    /\ sinkTask' = [sinkTask EXCEPT ![s] = "done"]
    /\ UNCHANGED <<mainPc, registryVars, streamOpen, sinkLog, sent, subLog,
                   readerVars, subTask, egErr, cbFailed, ackPc, scan, ctxVars,
                   pipeVars>>
    /\ UNCHANGED <<carried, sideVars>>

\* select, case <-time.After(besSendTimeout): the sink is marked unhealthy
\* and the abort check runs; the goroutine calling Send is left behind.
SinkTaskTimeout(s) ==
    /\ sinkTask[s] = "wait"
    /\ MarkUnhealthy(s)
    /\ failedAt' = [failedAt EXCEPT ![s] = seqId]
    /\ lingering' = [lingering EXCEPT ![s] = TRUE]
    /\ sinkTask' = [sinkTask EXCEPT ![s] = "check"]
    /\ EnterCheck(<<"task", s>>)
    /\ UNCHANGED <<mainPc, registryVars, streamOpen, sinkLog, sent, subLog,
                   readerVars, subTask, egErr, cbFailed, ackPc, ctxVars,
                   pipeVars>>
    /\ UNCHANGED <<carried, sideVars>>

\* A Send left behind by a timeout returns after all, having delivered its
\* envelope or not; nobody reads its result.
LateSendReturns(s, ok) ==
    /\ lingering[s]
    /\ ok => SendCanDeliver(s)
    /\ lingering' = [lingering EXCEPT ![s] = FALSE]
    /\ IF ok
       THEN Issue(s, <<Envelope(Sending(s))>>)
       ELSE UNCHANGED <<sinkLog, carried>>
    /\ UNCHANGED <<mainPc, registryVars, healthy, streamOpen, sent, failedAt,
                   subLog, readerVars, subTask, sinkTask, egErr, cbFailed,
                   ackPc, scan, ctxVars, pipeVars>>
    /\ UNCHANGED sideVars

\* A faulty variant: only the subscribers' tasks are waited for.
FanOutFinishedSubscribersOnly ==
    \A u \in Subs : subTask[u] \in {"idle", "done"}

\* Every task of the record has returned.
FanOutFinished ==
    /\ \A u \in Subs : subTask[u] \in {"idle", "done"}
    /\ \A s \in Sinks : sinkTask[s] \in {"idle", "done"}

\* A faulty variant: the loop of streamBesEvents does not look at
\* event.LastMessage.
EgWaitIgnoresLastMessage ==
    /\ readerPc = "wait"
    /\ FanOutFinished
    /\ IF egErr
       THEN Fail("publish")
       ELSE /\ readerPc' = "read"
            /\ UNCHANGED <<errors, idle>>
    /\ UNCHANGED <<mainPc, registryVars, destVars, finalIdx, finalLen, seqId,
                   lastMessage, healthyAtEnd, taskVars, ackPc, scan, ctxVars,
                   pipeVars>>
    /\ UNCHANGED <<carried, sideVars>>

\* eg.Wait() returns: a task's error ends streamBesEvents with an error; the
\* record flagged LastMessage ends it normally and the normal-completion loop
\* begins; otherwise the next record is read.
EgWait ==
    /\ readerPc = "wait"
    /\ FanOutFinished
    /\ IF egErr
       THEN /\ Fail("publish")
            /\ UNCHANGED <<finalIdx, finalLen, healthyAtEnd>>
       ELSE IF lastMessage
       THEN /\ readerPc' = "final"
            /\ finalIdx' = 1
            /\ finalLen' = Len(besProxies)
            /\ healthyAtEnd' = {s \in Range(besProxies) : healthy[s]}
            /\ idle' = 0
            /\ UNCHANGED errors
       ELSE /\ readerPc' = "read"
            /\ UNCHANGED <<finalIdx, finalLen, errors, healthyAtEnd, idle>>
    /\ UNCHANGED <<mainPc, registryVars, destVars, seqId, lastMessage,
                   taskVars, ackPc, scan, ctxVars, pipeVars>>
    /\ UNCHANGED <<carried, sideVars>>

\* A variant: a "build finished" bracket follows "invocation attempt
\* finished".
FinalLifecycleEventsWithBuildFinished == <<Finished, <<"buildFinished", 3>>>>

\* sendFinalLifecycleEvents: "invocation attempt finished".
FinalLifecycleEvents == <<Finished>>

\* A faulty variant: the loop goes by the flags as they were when
\* streamBesEvents returned.
FinalHealthySnapshot ==
    /\ readerPc = "final"
    /\ finalIdx <= finalLen
    /\ IF besProxies[finalIdx] \in healthyAtEnd
       THEN /\ readerPc' = "final_send"
            /\ UNCHANGED finalIdx
       ELSE /\ finalIdx' = finalIdx + 1
            /\ UNCHANGED readerPc
    /\ UNCHANGED <<mainPc, registryVars, destVars, finalLen, seqId,
                   lastMessage, errors, healthyAtEnd, idle, taskVars, ackPc,
                   scan, ctxVars, pipeVars>>
    /\ UNCHANGED <<carried, sideVars>>

\* A faulty variant: the loop does not look at the health flag.
FinalHealthyIgnored ==
    /\ readerPc = "final"
    /\ finalIdx <= finalLen
    /\ readerPc' = "final_send"
    /\ UNCHANGED <<mainPc, registryVars, destVars, finalIdx, finalLen, seqId,
                   lastMessage, errors, healthyAtEnd, idle, taskVars, ackPc,
                   scan, ctxVars, pipeVars>>
    /\ UNCHANGED <<carried, sideVars>>

\* Normal completion, one iteration, first statement: an unhealthy sink is
\* skipped.
FinalHealthy ==
    /\ readerPc = "final"
    /\ finalIdx <= finalLen
    /\ IF healthy[besProxies[finalIdx]]
       THEN /\ readerPc' = "final_send"
            /\ UNCHANGED finalIdx
       ELSE /\ finalIdx' = finalIdx + 1
            /\ UNCHANGED readerPc
    /\ UNCHANGED <<mainPc, registryVars, destVars, finalLen, seqId, lastMessage,
                   errors, healthyAtEnd, idle, taskVars, ackPc, scan, ctxVars,
                   pipeVars>>
    /\ UNCHANGED <<carried, sideVars>>

\* Normal completion, the rest of the iteration: sendFinalLifecycleEvents,
\* then p.CloseSend().
FinalSend ==
    /\ readerPc = "final_send"
    /\ Issue(besProxies[finalIdx], FinalLifecycleEvents \o <<CloseSend>>)
    /\ finalIdx' = finalIdx + 1
    /\ readerPc' = "final"
    /\ UNCHANGED <<mainPc, registryVars, healthy, streamOpen, sent, failedAt,
                   subLog, finalLen, seqId, lastMessage, errors, healthyAtEnd,
                   idle, taskVars, ackPc, scan, ctxVars, pipeVars>>
    /\ UNCHANGED sideVars

\* The loop is over: the goroutine returns (wg.Done).
FinalDone ==
    /\ readerPc = "final"
    /\ finalIdx > finalLen
    /\ readerPc' = "done"
    /\ UNCHANGED <<mainPc, registryVars, destVars, finalIdx, finalLen, seqId,
                   lastMessage, errors, healthyAtEnd, idle, taskVars, ackPc,
                   scan, ctxVars, pipeVars>>
    /\ UNCHANGED <<carried, sideVars>>

-----------------------------------------------------------------------------
(* The acknowledgment goroutine of a sink.                                 *)

\* if !p.Healthy() { break }
AckSeesUnhealthy(s) ==
    /\ ackPc[s] = "loop"
    /\ ~healthy[s]
    /\ ackPc' = [ackPc EXCEPT ![s] = "check"]
    /\ EnterCheck(<<"ack", s>>)
    /\ UNCHANGED <<mainPc, registryVars, destVars, readerVars, taskVars,
                   ctxVars, pipeVars>>
    /\ UNCHANGED <<carried, sideVars>>

\* p.Recv() returns io.EOF, a cancellation or another error: the loop ends.
AckRecvError(s) ==
    /\ ackPc[s] = "loop"
    /\ RecvFails(s)
    /\ ackPc' = [ackPc EXCEPT ![s] = "check"]
    /\ EnterCheck(<<"ack", s>>)
    /\ UNCHANGED <<mainPc, registryVars, streamOpen, sinkLog, sent, failedAt,
                   subLog, readerVars, taskVars, ctxVars, pipeVars>>
    /\ UNCHANGED <<carried, sideVars>>

-----------------------------------------------------------------------------

\* Every step of a session but the two that add a subscriber or a sink.
Session ==
    \/ ServeWait
    \/ SubscribersDone
    \/ SendInitialLifecycleEvents
    \/ OpenStream
    \/ OpenStreamFails
    \/ RunNext
    \/ GracefulStop
    \/ OpenFile
    \/ ProducerOpens
    \/ \E last \in BOOLEAN : ReadRecord(last)
    \/ ReadBlocked
    \/ ReadThrottle
    \/ ReadGlobalTimeout
    \/ ReadDeadlineExceeded
    \/ ReadMalformed
    \/ \E u \in Subs, ok \in BOOLEAN : SubscriberCallback(u, ok)
    \/ \E s \in Sinks : SinkTaskSend(s)
    \/ \E s \in Sinks : SinkTaskSent(s)
    \/ \E s \in Sinks : SinkTaskSendError(s)
    \/ \E s \in Sinks : SinkTaskTimeout(s)
    \/ \E s \in Sinks, ok \in BOOLEAN : LateSendReturns(s, ok)
    \/ EgWait
    \/ FinalHealthy
    \/ FinalSend
    \/ FinalDone
    \/ \E s \in Sinks : AckSeesUnhealthy(s)
    \/ \E s \in Sinks : AckRecvError(s)
    \/ \E c \in Checkers : AbortCheck(c)
    \/ Cancel
    \/ WatchCtxDone

Next ==
    \/ RegisterSubscriber
    \/ RegisterBesProxy
    \/ Session

Spec == Init /\ [][Next]_vars

-----------------------------------------------------------------------------
(* A session with one plugin and one sink, under fair scheduling.          *)

\* The loop over the plugins finds one plugin.
RegisterOnlySubscriber == subscribers = <<>> /\ RegisterSubscriber

\* createBesInterceptor registers one sink: the last BES backend.
RegisterOnlyBesProxy == besProxies = <<>> /\ RegisterBesProxy

NextFair ==
    \/ RegisterOnlySubscriber
    \/ RegisterOnlyBesProxy
    \/ Session

\* What the scheduling of the code guarantees: a subscriber's callback
\* returns; a sink's task reads the health flag, and besSendTimeout fires
\* on a task that waits for Send; the abort check returns; the reader goes
\* on when eg.Wait() returns, and through the normal-completion loop; the
\* read deadline set after ctx.Done() passes. Nothing makes a Send return
\* or a record arrive.
Fairness ==
    /\ \A u \in Subs : WF_vars(\E ok \in BOOLEAN : SubscriberCallback(u, ok))
    /\ \A s \in Sinks : WF_vars(SinkTaskSend(s))
    /\ \A s \in Sinks : WF_vars(SinkTaskTimeout(s))
    /\ \A c \in Checkers : WF_vars(AbortCheck(c))
    /\ WF_vars(EgWait)
    /\ WF_vars(FinalHealthy)
    /\ WF_vars(FinalSend)
    /\ WF_vars(FinalDone)
    /\ WF_vars(ReadDeadlineExceeded)

FairSpec == Init /\ [][NextFair]_vars /\ Fairness

-----------------------------------------------------------------------------
(* A session with one plugin and one sink registered by the wiring, and a  *)
(* second sink attached by another goroutine while the session runs.       *)

\* What the attaching goroutine leaves alone besides the bridge's state.
besideAttach == <<callerVars, argsVars, idVars, restartVars,
                 ibazelVars, configureVars, besPluginVars, setVars,
                  customVars, hookVars>>

\* RegisterBesProxy, first statement, once the build tool has been started.
AttachRegisterBesProxy ==
    /\ attachPc = "idle"
    /\ mainPc = "next"
    /\ Len(besProxies) < MaxSinks
    /\ besProxies' = Append(besProxies, Len(besProxies) + 1)
    /\ attachPc' = "reg_lifecycle"
    /\ UNCHANGED <<mainPc, subscribers, destVars, readerVars, taskVars, ackPc,
                   scan, ctxVars, pipeVars, besideAttach,
                   carried>>

\* RegisterBesProxy calls sendInitialLifecycleEvents.
AttachSendInitialLifecycleEvents ==
    /\ attachPc = "reg_lifecycle"
    /\ Issue(Registering, InitialLifecycleEvents)
    /\ attachPc' = "reg_stream"
    /\ UNCHANGED <<mainPc, registryVars, healthy, streamOpen, sent, failedAt,
                   subLog, readerVars, taskVars, ackPc, scan, ctxVars,
                   pipeVars, besideAttach>>

\* A faulty variant: the stream is opened and no goroutine is started.
AttachOpenStreamNoListener ==
    /\ attachPc = "reg_stream"
    /\ streamOpen' = [streamOpen EXCEPT ![Registering] = TRUE]
    /\ attachPc' = "done"
    /\ UNCHANGED <<mainPc, registryVars, healthy, sinkLog, sent, failedAt,
                   subLog, readerVars, taskVars, ackPc, scan, ctxVars,
                   pipeVars, besideAttach,
                   carried>>

\* PublishBuildToolEventStream succeeds: the stream is open, the
\* acknowledgment goroutine is started and RegisterBesProxy returns.
AttachOpenStream ==
    /\ attachPc = "reg_stream"
    /\ streamOpen' = [streamOpen EXCEPT ![Registering] = TRUE]
    /\ ackPc' = [ackPc EXCEPT ![Registering] = "loop"]
    /\ attachPc' = "done"
    /\ UNCHANGED <<mainPc, registryVars, healthy, sinkLog, sent, failedAt,
                   subLog, readerVars, taskVars, scan, ctxVars, pipeVars,
                   besideAttach,
                   carried>>

\* PublishBuildToolEventStream fails: RegisterBesProxy prints and returns.
AttachOpenStreamFails ==
    /\ attachPc = "reg_stream"
    /\ attachPc' = "done"
    /\ UNCHANGED <<mainPc, registryVars, destVars, readerVars, taskVars, ackPc,
                   scan, ctxVars, pipeVars, besideAttach,
                   carried>>

NextAttach ==
    \/ NextFair
    \/ AttachRegisterBesProxy
    \/ AttachSendInitialLifecycleEvents
    \/ AttachOpenStream
    \/ AttachOpenStreamFails

SpecAttach == Init /\ [][NextAttach]_vars

-----------------------------------------------------------------------------
(* RegisterBesProxy called from several goroutines at once, and a loop     *)
(* over bb.besProxies running meanwhile. besPipe has no lock for           *)
(* bb.besProxies: the append of RegisterBesProxy reads the slice and then  *)
(* stores the grown slice, and a range loop reads the slice once.          *)

\* All of the bridge's state but the sink registry.
exceptBesProxies == <<mainPc, subscribers, destVars, readerVars, taskVars,
                      ackPc, scan, ctxVars, pipeVars, carried>>

\* What the concurrent callers leave alone besides the bridge's state.
besideCallers == <<attachPc, argsVars, idVars, restartVars,
                 ibazelVars, configureVars, besPluginVars, setVars,
                   customVars, hookVars>>

\* bb.besProxies = append(bb.besProxies, p), first half: the slice is read.
AppendReads(c) ==
    /\ regPc[c] = "call"
    /\ regSeen' = [regSeen EXCEPT ![c] = besProxies]
    /\ regPc' = [regPc EXCEPT ![c] = "append"]
    /\ UNCHANGED <<besProxies, exceptBesProxies, rangePc, rangeSeen, visited>>
    /\ UNCHANGED besideCallers

\* bb.besProxies = append(bb.besProxies, p), second half: the slice that
\* was read, grown by p, is stored; the rest of RegisterBesProxy works on p
\* alone.
AppendStores(c) ==
    /\ regPc[c] = "append"
    /\ besProxies' = Append(regSeen[c], c)
    /\ regPc' = [regPc EXCEPT ![c] = "done"]
    /\ UNCHANGED <<exceptBesProxies, regSeen, rangePc, rangeSeen, visited>>
    /\ UNCHANGED besideCallers

\* for _, p := range bb.besProxies: the range expression is evaluated once.
RangeBegins ==
    /\ rangePc = "idle"
    /\ rangeSeen' = besProxies
    /\ rangePc' = "loop"
    /\ UNCHANGED <<besProxies, exceptBesProxies, regPc, regSeen, visited>>
    /\ UNCHANGED besideCallers

\* One iteration of the loop.
RangeVisits ==
    /\ rangePc = "loop"
    /\ Len(visited) < Len(rangeSeen)
    /\ visited' = Append(visited, rangeSeen[Len(visited) + 1])
    /\ UNCHANGED <<besProxies, exceptBesProxies, regPc, regSeen, rangePc,
                   rangeSeen>>
    /\ UNCHANGED besideCallers

\* The loop ends.
RangeEnds ==
    /\ rangePc = "loop"
    /\ Len(visited) = Len(rangeSeen)
    /\ rangePc' = "done"
    /\ UNCHANGED <<besProxies, exceptBesProxies, regPc, regSeen, rangeSeen,
                   visited>>
    /\ UNCHANGED besideCallers

NextCallers ==
    \/ \E c \in Callers : AppendReads(c)
    \/ \E c \in Callers : AppendStores(c)
    \/ RangeBegins
    \/ RangeVisits
    \/ RangeEnds

SpecCallers == Init /\ [][NextCallers]_vars

-----------------------------------------------------------------------------
(* removeLastBesBackend, on command lines of at most MaxArgs arguments. An *)
(* argument is the sequence of the pieces of its text.                     *)

\* The arguments tried: two gRPC backends, a backend with another scheme, the
\* flag without a value, and another flag.
Arguments ==
    { <<"--bes_backend", "=", "grpc://", "a">>,
      <<"--bes_backend", "=", "grpc://", "b">>,
      <<"--bes_backend", "=", "https://", "c">>,
      <<"--bes_backend">>,
      <<"--config", "=", "x">> }

\* The command lines of n arguments.
ArgLists(n) == [1..n -> Arguments]

\* strings.HasPrefix
HasPrefix(s, prefix) ==
    /\ Len(s) >= Len(prefix)
    /\ SubSeq(s, 1, Len(prefix)) = prefix

\* strings.TrimPrefix
TrimPrefix(s, prefix) ==
    IF HasPrefix(s, prefix) THEN SubSeq(s, Len(prefix) + 1, Len(s)) ELSE s

\* "--bes_backend="
BesBackendFlag == <<"--bes_backend", "=">>

\* "grpc://"
GrpcScheme == <<"grpc://">>

\* slices.Delete(s, i, i+1), with the indices of TLA+.
Delete(s, i) == SubSeq(s, 1, i - 1) \o SubSeq(s, i + 1, Len(s))

\* A faulty variant: the loop stops at the first --bes_backend.
FirstBackend(a) ==
    IF \E i \in 1..Len(a) : HasPrefix(a[i], BesBackendFlag)
    THEN CHOOSE i \in 1..Len(a) :
            /\ HasPrefix(a[i], BesBackendFlag)
            /\ \A j \in 1..i - 1 : ~HasPrefix(a[j], BesBackendFlag)
    ELSE 0

\* The loop over args from idx on, lastBackend being what it has found so
\* far: 0 stands for the -1 of the code, the indices starting at 1.
RECURSIVE LastBackendLoop(_, _, _)
LastBackendLoop(a, idx, lastBackend) ==
    IF idx > Len(a)
    THEN lastBackend
    ELSE LastBackendLoop(a, idx + 1,
                         IF HasPrefix(a[idx], BesBackendFlag)
                         THEN idx ELSE lastBackend)

\* The index of the last --bes_backend, or 0.
LastBackend(a) == LastBackendLoop(a, 1, 0)

\* The call panicked.
Panicked == [status |-> "panic"]

\* removeLastBesBackend(args)
RemoveLastBesBackend(a) ==
    LET lastBackend == LastBackend(a)
        backend == TrimPrefix(a[lastBackend], BesBackendFlag)
    IN  IF lastBackend = 0
        THEN Panicked
        ELSE IF ~HasPrefix(backend, GrpcScheme)
        THEN Panicked
        ELSE [status |-> "returned",
              args |-> Delete(a, lastBackend),
              backend |-> backend]

\* What the call leaves alone.
besideArgs == <<callerVars, attachPc, idVars, restartVars,
                 ibazelVars, configureVars, besPluginVars, setVars,
                customVars, hookVars>>

\* createBesInterceptor calls removeLastBesBackend(args).
CallRemoveLastBesBackend ==
    /\ ret = NotCalled
    /\ ret' = RemoveLastBesBackend(args)
    /\ UNCHANGED <<args, bridgeVars, besideArgs>>

\* Any command line of at most MaxArgs arguments.
InitArgs ==
    /\ InitSession
    /\ \E n \in 0..MaxArgs : args \in ArgLists(n)
    /\ ret = NotCalled
    /\ NoParseSet

NextArgs == CallRemoveLastBesBackend

SpecArgs == InitArgs /\ [][NextArgs]_vars

-----------------------------------------------------------------------------
(* RestartBazelProtocol: Cycle, kill, start and terminate.                 *)

\* What a call of Cycle leaves alone.
besideRestart == <<bridgeVars, callerVars, attachPc, argsVars, idVars,
                 ibazelVars, configureVars, besPluginVars, setVars,
                   customVars, hookVars>>

\* A faulty variant of CycleKill: kill does not set rb.runCmd to nil.
CycleKillKeepsRunCmd ==
    /\ restartPc = "idle"
    /\ cycles < MaxCycles
    /\ IF runCmd = 0
       THEN /\ restartPc' = "start"
            /\ UNCHANGED proc
       ELSE /\ restartPc' = "signal"
            /\ proc' = runCmd
    /\ UNCHANGED <<runCmd, termErr, killTimer, alive, cycles, cycleRet,
                   besideRestart>>

\* Cycle calls kill: with no process, kill returns nil and Cycle goes on to
\* start; otherwise kill takes the process, sets rb.runCmd to nil and calls
\* terminate.
CycleKill ==
    /\ restartPc = "idle"
    /\ cycles < MaxCycles
    /\ IF runCmd = 0
       THEN /\ restartPc' = "start"
            /\ UNCHANGED proc
       ELSE /\ restartPc' = "signal"
            /\ proc' = runCmd
    /\ runCmd' = 0
    /\ UNCHANGED <<termErr, killTimer, alive, cycles, cycleRet, besideRestart>>

\* The process exits, by itself or on a signal it has been sent.
ProcessExits ==
    /\ alive
    /\ alive' = FALSE
    /\ UNCHANGED <<runCmd, restartPc, proc, termErr, killTimer, cycles,
                   cycleRet, besideRestart>>

\* terminate: err := p.Signal(syscall.SIGTERM), which fails or not; the
\* goroutine that waits SHUTDOWN_KILL_DELAY is started and p.Wait() is called.
TerminateSignal(ok) ==
    /\ restartPc = "signal"
    /\ termErr' = IF ok THEN "nil" ELSE "sigterm"
    /\ killTimer' = "armed"
    /\ restartPc' = "wait"
    /\ UNCHANGED <<runCmd, proc, alive, cycles, cycleRet, besideRestart>>

\* case <-time.After(SHUTDOWN_KILL_DELAY): err = kill(p). The goroutine
\* writes err without synchronisation, before or after p.Wait() has
\* returned; SIGKILL, if it can be sent, ends a process that is running,
\* and it cannot be sent to a process that has been waited for.
KillTimerFires(ok) ==
    /\ killTimer = "armed"
    /\ restartPc \in {"wait", "return"}
    /\ restartPc = "return" => ~ok
    /\ termErr' = IF ok THEN "nil" ELSE "sigkill"
    /\ alive' = (alive /\ ~ok)
    /\ killTimer' = "off"
    /\ UNCHANGED <<runCmd, restartPc, proc, cycles, cycleRet, besideRestart>>

\* p.Wait() returns once the process has exited, and done <- true is sent.
WaitReturns ==
    /\ restartPc = "wait"
    /\ ~alive
    /\ restartPc' = "return"
    /\ UNCHANGED <<runCmd, proc, termErr, killTimer, alive, cycles, cycleRet,
                   besideRestart>>

\* kill: return terminate(p), which returns err.
KillReturns == termErr

\* terminate returns err and kill returns it: on an error Cycle returns
\* "failed to close the previous process", otherwise it goes on to start.
\* The goroutine of terminate, if still waiting, takes case <-done.
TerminateReturns ==
    /\ restartPc = "return"
    /\ killTimer' = "off"
    /\ IF KillReturns = "nil"
       THEN /\ restartPc' = "start"
            /\ UNCHANGED <<cycles, cycleRet>>
       ELSE /\ restartPc' = "idle"
            /\ cycles' = cycles + 1
            /\ cycleRet' = "failed to close"
    /\ UNCHANGED <<runCmd, proc, termErr, alive, besideRestart>>

\* start: with a process in rb.runCmd it returns "already running" and does
\* nothing else; otherwise createRunCmd().Start() fails or not, rb.runCmd is
\* set if it did not, and Cycle returns.
Start(ok) ==
    /\ restartPc = "start"
    /\ IF runCmd = 0 /\ ok
       THEN /\ runCmd' = cycles + 1
            /\ alive' = TRUE
            /\ cycleRet' = "nil"
       ELSE /\ cycleRet' = "failed to start"
            /\ UNCHANGED <<runCmd, alive>>
    /\ restartPc' = "idle"
    /\ cycles' = cycles + 1
    /\ UNCHANGED <<proc, termErr, killTimer, besideRestart>>

NextRestart ==
    \/ CycleKill
    \/ ProcessExits
    \/ \E ok \in BOOLEAN : TerminateSignal(ok)
    \/ \E ok \in BOOLEAN : KillTimerFires(ok)
    \/ WaitReturns
    \/ TerminateReturns
    \/ \E ok \in BOOLEAN : Start(ok)

SpecRestart == Init /\ [][NextRestart]_vars

-----------------------------------------------------------------------------
(* IBazelProtocol: Cycle, Exit, buildOne, buildStart, buildEnd and write.  *)

\* What a call of Cycle or Exit leaves alone.
besideIBazel == <<bridgeVars, callerVars, attachPc, argsVars, idVars,
                  restartVars, configureVars, besPluginVars, setVars,
                  customVars, hookVars>>

\* The lines of the protocol.
BuildStarted == "IBAZEL_BUILD_STARTED"
BuildCompletedSuccess == "IBAZEL_BUILD_COMPLETED SUCCESS"
BuildCompletedError == "IBAZEL_BUILD_COMPLETED ERROR"

\* The field stdin is set, to a connection or to nil, between two calls.
SetStdin(connected) ==
    /\ ibPc = "idle"
    /\ stdin # connected
    /\ stdin' = connected
    /\ UNCHANGED <<stream, ibPc, ibCall, ibRet, ibCalls, besideIBazel>>

\* Cycle calls buildOne(true), Exit(ctx, err) calls buildOne(err == nil).
CallBuildOne(op, errIsNil) ==
    /\ ibPc = "idle"
    /\ ibCalls < MaxCalls
    /\ ibCall' = [op |-> op, errIsNil |-> errIsNil]
    /\ ibPc' = "buildStart"
    /\ UNCHANGED <<stdin, stream, ibRet, ibCalls, besideIBazel>>

\* The argument of buildOne.
Success == ibCall.op = "Cycle" \/ ibCall.errIsNil

\* write(data): nothing with a nil stdin; otherwise data and a newline are
\* handed to stdin.Write in one piece, which writes them or fails.
Write(data, ok) ==
    IF stdin /\ ok THEN stream \o <<data, "\n">> ELSE stream

\* The error write returns.
WriteFails(ok) == stdin /\ ~ok

\* A faulty variant: buildOne goes on to buildEnd whatever buildStart
\* returned.
BuildStartErrorIgnored(ok) ==
    /\ ibPc = "buildStart"
    /\ stream' = Write(BuildStarted, ok)
    /\ ibPc' = "buildEnd"
    /\ UNCHANGED <<stdin, ibCall, ibRet, ibCalls, besideIBazel>>

\* buildOne calls buildStart: on an error buildOne returns it.
BuildStart(ok) ==
    /\ ibPc = "buildStart"
    /\ stream' = Write(BuildStarted, ok)
    /\ IF WriteFails(ok)
       THEN /\ ibRet' = "error"
            /\ ibPc' = "idle"
            /\ ibCalls' = ibCalls + 1
       ELSE /\ ibPc' = "buildEnd"
            /\ UNCHANGED <<ibRet, ibCalls>>
    /\ UNCHANGED <<stdin, ibCall, besideIBazel>>

\* buildOne calls buildEnd(success) and returns its error, or nil.
BuildEnd(ok) ==
    /\ ibPc = "buildEnd"
    /\ stream' = Write(IF Success THEN BuildCompletedSuccess
                                  ELSE BuildCompletedError, ok)
    /\ ibRet' = IF WriteFails(ok) THEN "error" ELSE "nil"
    /\ ibPc' = "idle"
    /\ ibCalls' = ibCalls + 1
    /\ UNCHANGED <<stdin, ibCall, besideIBazel>>

NextIBazel ==
    \/ \E connected \in BOOLEAN : SetStdin(connected)
    \/ \E op \in {"Cycle", "Exit"}, errIsNil \in BOOLEAN :
            CallBuildOne(op, errIsNil)
    \/ \E ok \in BOOLEAN : BuildStart(ok)
    \/ \E ok \in BOOLEAN : BuildEnd(ok)

SpecIBazel == Init /\ [][NextIBazel]_vars

-----------------------------------------------------------------------------
(* Properties of the bridge.                                               *)

\* The sequence numbers 1..n, in order.
UpTo(n) == [i \in 1..n |-> i]

\* The envelopes of the records 1..n, in order.
Envelopes(n) == [i \in 1..n |-> Envelope(i)]

\* The position of sink s in bb.besProxies.
Pos(s) == CHOOSE i \in 1..Len(besProxies) : besProxies[i] = s

\* RegisterBesProxy is still working on sink s.
InRegistration(s) ==
    /\ mainPc \in {"reg_lifecycle", "reg_stream"}
    /\ s = Registering

\* A task of the current record has not returned yet.
TaskInFlight ==
    \/ \E u \in Subs : subTask[u] = "run"
    \/ \E s \in Sinks : sinkTask[s] \in {"start", "wait", "check"}

\* No thread is inside the abort check.
NoCheckRunning == \A c \in Checkers : ~Checking(c)

\* Every sink of the registry is unhealthy.
AllUnhealthy == \A s \in Range(besProxies) : ~healthy[s]

\* streamBesEvents returned nil and the normal-completion loop is over.
CompletedNormally == readerPc = "done" /\ finalIdx > 0

\* C1: every registered subscriber has been invoked exactly once per decoded
\* record, with the sequence numbers 1, 2, ..., N in that order: while its
\* task for record N is pending it has seen 1..N-1, afterwards 1..N, whether
\* or not a callback returned an error.
C1_SubscribersInOrder ==
    \A u \in Range(subscribers) :
        subLog[u] = UpTo(IF subTask[u] = "run" THEN seqId - 1 ELSE seqId)

\* A session of MaxRecords records that ended normally, with every subscriber
\* registered and invoked for each record.
C1_Witness ==
    /\ CompletedNormally
    /\ seqId = MaxRecords
    /\ Len(subscribers) = MaxSubs
    /\ \A u \in Subs : subLog[u] = UpTo(MaxRecords)

\* C2: a registered sink that is healthy has been issued exactly: "enqueued"
\* (1), "started" (2), the envelopes of the records 1..N in order with
\* nothing missing or repeated (N-1 while its task for record N is pending),
\* and, once the normal-completion loop has passed it, "finished" followed
\* by the closing of its stream.
C2_HealthySinkLog ==
    \A s \in Range(besProxies) :
        healthy[s] =>
            sinkLog[s] =
                (IF mainPc = "reg_lifecycle" /\ s = Registering
                 THEN <<>> ELSE <<Enqueued, Started>>)
                \o Envelopes(IF sinkTask[s] \in {"start", "wait"}
                             THEN seqId - 1 ELSE seqId)
                \o (IF Pos(s) < finalIdx THEN <<Finished, CloseSend>> ELSE <<>>)

\* A session of MaxRecords records that ended normally with a sink healthy
\* to the end, which got the brackets and every envelope.
C2_Witness ==
    /\ CompletedNormally
    /\ seqId = MaxRecords
    /\ \E s \in Range(besProxies) :
        /\ healthy[s]
        /\ sinkLog[s] = <<Enqueued, Started>> \o Envelopes(MaxRecords)
                        \o <<Finished, CloseSend>>

\* C3: tasks are in flight only while the reader waits in eg.Wait(): the
\* reader fetches no record, runs no completion loop and does not return
\* while a task of the current record has not returned, and every Send a
\* task waits on is for the current record.
C3_LockStep ==
    /\ readerPc # "wait" => ~TaskInFlight
    /\ \A s \in Sinks : sinkTask[s] \in {"wait", "check"} => Sending(s) = seqId
    /\ \A u \in Range(subscribers) :
        subTask[u] = "run" => Len(subLog[u]) = seqId - 1

\* The fan-out of the last of MaxRecords records is in flight, to every
\* subscriber and sink the bounds allow.
C3_Witness ==
    /\ readerPc = "wait"
    /\ seqId = MaxRecords
    /\ seqId > 1
    /\ TaskInFlight
    /\ Len(subscribers) = MaxSubs
    /\ Len(besProxies) = MaxSinks

\* C4: a sink whose send failed or timed out on record k is unhealthy and
\* no Send to it is started for a later record; a failed send does not end
\* the fan-out with an error by itself, and every other sink that is healthy
\* has been sent every record, the later ones included.
C4_FailedSinkIsolated ==
    \A s \in Range(besProxies) :
        failedAt[s] # 0 =>
            /\ ~healthy[s]
            /\ \A i \in 1..Len(sent[s]) : sent[s][i] <= failedAt[s]
            /\ \A t \in Range(besProxies) \ {s} :
                healthy[t] =>
                    sent[t] = UpTo(IF sinkTask[t] = "start"
                                   THEN seqId - 1 ELSE seqId)

\* One sink failed on record 1 and was skipped afterwards, while another
\* sink stayed healthy and was delivered the last record.
C4_Witness ==
    \E s, t \in Range(besProxies) :
        /\ failedAt[s] = 1
        /\ sent[s] = <<1>>
        /\ sinkTask[s] = "done"
        /\ seqId = MaxRecords
        /\ seqId > 1
        /\ healthy[t]
        /\ sinkLog[t] = <<Enqueued, Started>> \o Envelopes(MaxRecords)

\* C5: the health flag of a sink only ever goes from healthy to unhealthy.
C5_HealthOnlyFalls ==
    [][\A s \in Sinks : ~healthy[s] => ~healthy'[s]]_vars

\* A sink that failed on an earlier record, whose listener has exited, is
\* still unhealthy after a later record was fanned out.
C5_Witness ==
    \E s \in Range(besProxies) :
        /\ ~healthy[s]
        /\ failedAt[s] # 0
        /\ seqId > failedAt[s]
        /\ ~TaskInFlight
        /\ ackPc[s] = "done"

\* C6: the FIFO is unlinked by the abort check at most once, however many
\* threads run the check, and exactly when the Once has run.
C6_UnlinkAtMostOnce ==
    /\ unlinkCount <= 1
    /\ pipeAborted <=> unlinkCount = 1

\* Every sink failed, and the tasks, the listeners and the ctx goroutine
\* have all run the abort check; the FIFO was unlinked once.
C6_Witness ==
    /\ Len(besProxies) = MaxSinks
    /\ \A s \in Sinks : failedAt[s] # 0 /\ sinkTask[s] = "done"
                        /\ ackPc[s] = "done"
    /\ watchPc = "done"
    /\ unlinkCount = 1

\* C7: the abort check unlinks the FIFO only if the slice it looped over was
\* not empty and every sink of it was unhealthy; with an empty registry the
\* FIFO is never unlinked by it and stays until GracefulStop removes it.
C7_SeveranceOnlyWhenAllUnhealthy ==
    /\ unlinkCount > 0 =>
        /\ abortSaw >= 1
        /\ \A i \in 1..abortSaw : ~healthy[besProxies[i]]
    /\ besProxies = <<>> => unlinkCount = 0 /\ (pipeExists \/ removed)

\* The abort check has unlinked the FIFO after looping over a full registry.
C7_Witness ==
    /\ unlinkCount = 1
    /\ abortSaw = MaxSinks
    /\ abortSaw > 1
    /\ ~pipeExists

\* C8: whenever the registry is not empty, every sink is unhealthy and no
\* thread is inside the abort check, the FIFO has been unlinked.
C8_AllUnhealthyImpliesSevered ==
    besProxies # <<>> /\ AllUnhealthy /\ NoCheckRunning =>
        pipeAborted /\ unlinkCount = 1 /\ ~pipeExists

\* Every sink failed on the same record; both tasks have run the check and
\* the FIFO is unlinked.
C8_Witness ==
    /\ Len(besProxies) = MaxSinks
    /\ MaxSinks > 1
    /\ seqId >= 1
    /\ \A s \in Sinks : failedAt[s] = seqId /\ ~healthy[s]
    /\ NoCheckRunning
    /\ pipeAborted

C10_OpeningBracketsFirst ==
    \A s \in Range(besProxies) :
        IF mainPc = "reg_lifecycle" /\ s = Registering
        THEN /\ sinkLog[s] = <<>>
             /\ ~streamOpen[s]
             /\ ackPc[s] = "none"
             /\ sent[s] = <<>>
        ELSE /\ Len(sinkLog[s]) >= 2
             /\ sinkLog[s][1] = <<"enqueued", 1>>
             /\ sinkLog[s][2] = <<"started", 2>>
             /\ \A i \in 3..Len(sinkLog[s]) :
                    sinkLog[s][i][1] \notin {"enqueued", "started"}

\* A sink with an open stream whose log is the two opening brackets followed
\* by the envelope of record 1.
C10_Witness ==
    \E s \in Range(besProxies) :
        /\ streamOpen[s]
        /\ Len(sinkLog[s]) >= 3
        /\ sinkLog[s][3] = Envelope(1)

\* C11: a subscriber callback that returns an error never aborts the
\* session: streamBesEvents does not end with "failed to publish BES event"
\* after a callback has returned an error.
C11_SubscriberErrorNeverAborts ==
    cbFailed => "publish" \notin Range(errors)

\* A close bracket is in the log of some sink.
CloseBracketSent ==
    \E s \in Sinks :
        Finished \in Range(sinkLog[s]) \/ CloseSend \in Range(sinkLog[s])

\* C12: a failed decode ends the ingestion task with a parse error, which is
\* its only error; from then on no record is decoded, no subscriber callback
\* is invoked, no Send to a sink is started, the normal-completion loop does
\* not run and no sink has a close bracket. The only message that can still
\* reach a sink is the envelope of a Send that had timed out before.
C12_ParseErrorEndsSession ==
    [][/\ "parse" \in Range(errors') =>
            /\ errors' = <<"parse">>
            /\ readerPc' = "done"
            /\ finalIdx' = 0
            /\ ~TaskInFlight'
            /\ ~CloseBracketSent'
       /\ "parse" \in Range(errors) =>
            /\ seqId' = seqId
            /\ subLog' = subLog
            /\ sent' = sent
            /\ \A s \in Sinks : sinkLog'[s] # sinkLog[s] => lingering[s]]_vars

\* The decode of the second record failed after the first had been delivered
\* to a subscriber and to a sink, and GracefulStop has returned.
C12_Witness ==
    /\ "parse" \in Range(errors)
    /\ seqId = 1
    /\ \E u \in Range(subscribers) : subLog[u] = <<1>>
    /\ \E s \in Range(besProxies) : Envelope(1) \in Range(sinkLog[s])
    /\ removed

\* The part of the inactivity timeout that the reader keeps: every decoded
\* record re-arms the clock; the timeout error of besEventGlobalTimeout is
\* returned only by a read that finds no data after the clock has reached
\* the timeout; and once it has, a read that finds no data does not sleep
\* and read again.
InactivityClock ==
    [][/\ seqId' # seqId => idle' = 0
       /\ ("timeout" \in Range(errors') /\ "timeout" \notin Range(errors)) =>
            readerPc = "read" /\ idle >= TimeoutTicks /\ readerPc' = "done"
       /\ (idle >= TimeoutTicks /\ idle' = idle + 1) => idle' = TimeoutTicks + 1
       ]_vars

\* C13: a reader that is waiting for a record has not been without one for
\* longer than the global inactivity timeout: by the time the clock has
\* passed besEventGlobalTimeoutDuration the ingestion task has ended with a
\* timeout error.
C13_InactivityTimeout ==
    readerPc = "read" => idle <= TimeoutTicks

ListenerStopped(s) == ackPc[s] \in {"check", "done"}

C17_SinkFailureNotFatal ==
    /\ egErr => cbFailed
    /\ "publish" \in Range(errors) => cbFailed
    /\ (lastMessage /\ readerPc # "wait" /\ ~egErr) =>
            finalIdx > 0 /\ errors = <<>>
    /\ \A u \in Range(subscribers) :
            subLog[u] = UpTo(IF subTask[u] = "run" THEN seqId - 1 ELSE seqId)
    /\ \A r \in Range(besProxies) :
            healthy[r] /\ unlinkCount > 0 => Pos(r) > abortSaw

\* The Send of the first record to one sink failed or timed out; the session
\* went on to its normal end with a second, final record: the subscriber has
\* both records, another sink has both and the close brackets, and the FIFO
\* was not unlinked.
C17_Witness ==
    /\ CompletedNormally
    /\ errors = <<>>
    /\ seqId = 2
    /\ unlinkCount = 0
    /\ \E u \in Range(subscribers) : subLog[u] = <<1, 2>>
    /\ \E s, r \in Range(besProxies) :
        /\ failedAt[s] = 1
        /\ Envelope(2) \in Range(sinkLog[r])
        /\ CloseSend \in Range(sinkLog[r])

Increasing(q) == \A i, j \in 1..Len(q) : i < j => q[i] < q[j]

\* C19: the counter starts at 0 and moves only by the decode of a record,
\* which adds exactly 1 and hands the new number to the fan-out; a read that
\* finds no data, a failed decode and a timeout leave it alone. So the
\* numbers a subscriber gets are 1, 2, 3, ... and the numbers sent to a sink
\* are increasing and among 1..seqId.
C19_SequenceNumbers ==
    /\ [](/\ \A u \in Subs : subLog[u] = UpTo(Len(subLog[u]))
          /\ \A s \in Sinks : /\ Increasing(sent[s])
                              /\ Range(sent[s]) \subseteq 1..seqId)
    /\ [][/\ seqId' # seqId =>
                /\ seqId' = seqId + 1
                /\ readerPc = "read" /\ readerPc' = "wait"
                /\ errors' = errors
                /\ \A u \in Range(subscribers) : subTask'[u] = "run"
          /\ errors' # errors => seqId' = seqId
          /\ idle' > idle => seqId' = seqId]_vars

\* Two records were decoded and the decode of a third failed: the counter
\* is 2, a subscriber has the numbers 1 and 2 and a sink was sent 1 and 2.
C19_Witness ==
    /\ seqId = 2
    /\ errors = <<"parse">>
    /\ \E u \in Range(subscribers) : subLog[u] = <<1, 2>>
    /\ \E s \in Range(besProxies) : sent[s] = <<1, 2>>

\* C20: once the record flagged LastMessage is decoded no other record is:
\* the counter and the flag stay, the reader never returns to its read, and
\* after the fan-out of that record no callback is invoked and no Send is
\* started.
C20_LastMessageIsLast ==
    /\ [](lastMessage => readerPc \in {"wait", "final", "final_send", "done"})
    /\ [][lastMessage =>
            /\ lastMessage'
            /\ seqId' = seqId
            /\ readerPc # "wait" =>
                /\ readerPc' # "wait"
                /\ subLog' = subLog
                /\ sent' = sent
                /\ ~TaskInFlight']_vars

\* The first record was flagged LastMessage, though the producer could have
\* written another: the session ended normally after one record, which the
\* subscriber and the sink have.
C20_Witness ==
    /\ lastMessage
    /\ seqId = 1
    /\ seqId < MaxRecords
    /\ CompletedNormally
    /\ \E u \in Range(subscribers) : subLog[u] = <<1>>
    /\ \E s \in Range(besProxies) : sent[s] = <<1>>

\* The number of times message m is in the log q.
Count(q, m) == Cardinality({i \in 1..Len(q) : q[i] = m})

C22_NoRegistrationLost ==
    \A c \in Callers : regPc[c] = "done" => Count(besProxies, c) = 1

\* C23: the list of subscribers changes only before the first record is
\* dispatched: createBesInterceptor registers every plugin before it calls
\* next, which starts the producer. So when a record is decoded the list is
\* complete, every subscriber of the list gets a task for it, and the first
\* sequence number a subscriber sees is 1.
C23_SubscribersFixedBeforeFirstRecord ==
    [][/\ subscribers' # subscribers =>
            /\ seqId = 0
            /\ readerPc \in {"start", "open"}
            /\ mainPc = "subs"
       /\ seqId' # seqId =>
            /\ subscribers' = subscribers
            /\ mainPc = "next"
            /\ \A u \in Range(subscribers) : subTask'[u] = "run"
       /\ \A u \in Range(subscribers') :
            subLog'[u] # <<>> => subLog'[u][1] = 1]_vars

\* Two plugins were registered, two records were dispatched and both
\* subscribers have seen record 1 first.
C23_Witness ==
    /\ Len(subscribers) = MaxSubs
    /\ seqId = 2
    /\ \A u \in Range(subscribers) : subLog[u] = <<1, 2>>

\* The call of RegisterBesProxy for sink s is between its append and its
\* return.
BeingRegistered(s) ==
    /\ s = Registering
    /\ \/ mainPc \in {"reg_lifecycle", "reg_stream"}
       \/ attachPc \in {"reg_lifecycle", "reg_stream"}

C25_ErrorsExactlyOnFailure ==
    [][/\ errors' # errors => errors = <<>> /\ readerPc' = "done"
       /\ (readerPc # "done" /\ readerPc' = "done") =>
            \/ /\ readerPc = "start"
               /\ ~pipeExists
               /\ errors' = <<"accept">>
            \/ /\ readerPc = "read"
               /\ errors' \in {<<"parse">>, <<"timeout">>, <<"deadline">>}
            \/ /\ readerPc = "wait"
               /\ cbFailed
               /\ errors' = <<"publish">>
            \/ /\ readerPc = "final"
               /\ lastMessage
               /\ ~cbFailed
               /\ errors' = <<>>]_vars

\* The FIFO was unlinked before the goroutine opened it: the session is over
\* with the one error of os.OpenFile.
C25_Witness ==
    /\ readerPc = "done"
    /\ errors = <<"accept">>
    /\ seqId = 0

\* The positions of the --bes_backend arguments of a command line.
BackendPositions(a) ==
    {i \in 1..Len(a) :
        Len(a[i]) >= 2 /\ a[i][1] = "--bes_backend" /\ a[i][2] = "="}

\* C26: removeLastBesBackend panics if no argument starts with
\* --bes_backend= or if the value of the last such argument does not start
\* with grpc://; otherwise it returns that value and the command line
\* without that one argument, the others in their order.
C26_RemoveLastBesBackend ==
    ret.status # "not called" =>
        LET pos == BackendPositions(args)
        IN  IF pos = {}
            THEN ret = Panicked
            ELSE LET k == CHOOSE i \in pos : \A j \in pos : j <= i
                     value == [i \in 1..Len(args[k]) - 2 |-> args[k][i + 2]]
                 IN  IF value = <<>> \/ value[1] # "grpc://"
                     THEN ret = Panicked
                     ELSE /\ ret.status = "returned"
                          /\ ret.backend = value
                          /\ Len(ret.args) = Len(args) - 1
                          /\ \A i \in 1..Len(ret.args) :
                                ret.args[i] = args[IF i < k THEN i ELSE i + 1]

\* A command line with two gRPC backends and a flag after them: the second
\* backend is returned and the first stays in place.
C26_Witness ==
    /\ args = << <<"--bes_backend", "=", "grpc://", "a">>,
                 <<"--bes_backend", "=", "grpc://", "b">>,
                 <<"--config", "=", "x">> >>
    /\ ret.status = "returned"
    /\ ret.backend = <<"grpc://", "b">>
    /\ ret.args = << <<"--bes_backend", "=", "grpc://", "a">>,
                     <<"--config", "=", "x">> >>

\* C27: cancelling the session context aborts the ingestion pipe at once:
\* when the goroutine that waits on ctx.Done() has run its abort check, the
\* FIFO is unlinked.
C27_CancelUnlinksPipe ==
    watchPc = "done" => ~pipeExists

\* The last element of a sequence that is not empty.
Last(q) == q[Len(q)]

\* C28: while a record is fanned out the counter does not move, and what a
\* subscriber's callback is passed and what a sink's envelope carries is
\* the counter's value: the same number for every subscriber and every
\* sink of the record, a late Send included. The build id and the
\* invocation id of the bridge never change, and every request issued to a
\* sink, envelope or lifecycle bracket, carries that pair.
C28_SameSequenceNumberAndStreamId ==
    [][/\ seqId' # seqId =>
            /\ \A u \in Subs : subTask[u] \in {"idle", "done"}
            /\ \A s \in Sinks : sinkTask[s] \in {"idle", "done"}
       /\ \A u \in Subs :
            subLog'[u] # subLog[u] =>
                /\ readerPc = "wait"
                /\ seqId' = seqId
                /\ subLog'[u] = Append(subLog[u], seqId)
       /\ \A s \in Sinks :
            /\ sent'[s] # sent[s] =>
                    /\ readerPc = "wait"
                    /\ seqId' = seqId
                    /\ sent'[s] = Append(sent[s], seqId)
            /\ \A k \in 1..MaxRecords :
                    Count(sinkLog'[s], Envelope(k))
                        > Count(sinkLog[s], Envelope(k)) =>
                            k = Last(sent[s])
       /\ besBuildId' = besBuildId
       /\ besInvocationId' = besInvocationId
       /\ carried' \subseteq {<<besBuildId, besInvocationId>>}]_vars

\* A session that ended normally: a subscriber and a sink have both seen the
\* records 1 and 2, and the sink's brackets and envelopes carried the one
\* pair of identifiers.
C28_Witness ==
    /\ CompletedNormally
    /\ \E u \in Range(subscribers) : subLog[u] = <<1, 2>>
    /\ \E s \in Range(besProxies) :
        sinkLog[s] = <<Enqueued, Started, Envelope(1), Envelope(2),
                       Finished, CloseSend>>
    /\ carried = {<<besBuildId, besInvocationId>>}

\* C29: once the context is cancelled, the bb.wg.Wait() of GracefulStop
\* returns: the ingestion goroutine, wherever it is, in os.OpenFile waiting
\* for a producer, in streamBesEvents or in the normal-completion loop,
\* returns in the end.
C29_GracefulStopReturns ==
    (cancelled /\ readerPc \in {"open", "read", "wait", "final", "final_send"})
        ~> WaitGroupDone

\* C30: kill reports no failure, whatever terminate has met: a call of
\* Cycle never returns "failed to close the previous process", it goes on
\* to start the new process.
C30_KillIgnoresTerminateError ==
    cycleRet # "failed to close"

\* C31: a RestartBazelProtocol tracks at most one child. A process that
\* runs is either the one in rb.runCmd, between two calls of Cycle, or the
\* one terminate is working on, rb.runCmd being nil; when Cycle reaches
\* start, p.Wait() has returned for the previous process, which has exited,
\* and rb.runCmd is nil. A process is spawned only by start, and only with
\* rb.runCmd nil: with a process tracked, start spawns nothing, leaves
\* rb.runCmd as it is and Cycle returns the error.
C31_AtMostOneChild ==
    /\ [](alive =>
            \/ runCmd # 0 /\ restartPc = "idle"
            \/ runCmd = 0 /\ proc # 0 /\ restartPc \in {"signal", "wait"})
    /\ [](restartPc \in {"return", "start"} => ~alive /\ runCmd = 0)
    /\ [][/\ runCmd' \notin {0, runCmd} =>
                /\ restartPc = "start"
                /\ runCmd = 0
                /\ ~alive
                /\ alive'
          /\ (restartPc = "start" /\ runCmd # 0) =>
                /\ runCmd' = runCmd
                /\ alive' = alive
                /\ cycleRet' = "failed to start"]_vars

\* Two calls of Cycle have returned nil: the first process was terminated
\* and the second is tracked and running.
C31_Witness ==
    /\ cycles = 2
    /\ cycleRet = "nil"
    /\ proc = 1
    /\ runCmd = 2
    /\ alive
    /\ restartPc = "idle"

\* C32: terminate sends SIGTERM before it starts the goroutine that
\* escalates; it returns only after the process has exited; and once
\* p.Wait() has returned the goroutine neither sends SIGKILL nor writes the
\* error that terminate is about to return.
C32_TerminateIsOrderly ==
    [][/\ (killTimer # "armed" /\ killTimer' = "armed") =>
            restartPc = "signal"
       /\ restartPc' = "return" => ~alive'
       /\ restartPc = "return" =>
            /\ termErr' = termErr
            /\ killTimer = "armed" =>
                    killTimer' = "off" /\ restartPc' # "return"
      ]_vars

\* The lines of a stream of pieces: a piece that is not a newline, followed
\* by a newline, is a line.
IsLineAt(q, i) ==
    /\ i \in 1..Len(q) - 1
    /\ q[i] # "\n"
    /\ q[i + 1] = "\n"
    /\ i > 1 => q[i - 1] = "\n"

\* C33: every piece of the stream is part of a line; every COMPLETED line
\* is directly preceded by a STARTED line. A call writes STARTED and then
\* one COMPLETED line, SUCCESS for Cycle and for an Exit whose err is nil
\* and ERROR for another Exit; if the STARTED line cannot be written the
\* call returns the error and writes nothing more; with a nil stdin
\* nothing is written and the call returns nil.
C33_BuildOne ==
    /\ [](\A i \in 1..Len(stream) :
            /\ stream[i] # "\n" => IsLineAt(stream, i)
            /\ stream[i] \in {BuildCompletedSuccess, BuildCompletedError} =>
                    /\ i >= 3
                    /\ stream[i - 2] = BuildStarted
                    /\ IsLineAt(stream, i - 2))
    /\ [][/\ ~stdin => stream' = stream /\ ibRet' \in {ibRet, "nil"}
          /\ stream' # stream =>
                \E line \in {BuildStarted, BuildCompletedSuccess,
                              BuildCompletedError} :
                    /\ stream' = stream \o <<line, "\n">>
                    /\ (line = BuildStarted) = (ibPc = "buildStart")
                    /\ line = BuildCompletedSuccess =>
                            ibCall.op = "Cycle" \/ ibCall.errIsNil
                    /\ line = BuildCompletedError =>
                            ibCall.op = "Exit" /\ ~ibCall.errIsNil
          /\ (ibPc = "buildStart" /\ stdin /\ stream' = stream) =>
                /\ ibPc' = "idle"
                /\ ibRet' = "error"
          /\ (ibPc = "buildEnd" /\ ibPc' = "idle") =>
                ibRet' = IF stdin /\ stream' = stream THEN "error" ELSE "nil"
         ]_vars

\* A Cycle and then an Exit with an error, both written in full.
C33_Witness ==
    /\ ibPc = "idle"
    /\ ibRet = "nil"
    /\ stream = <<BuildStarted, "\n", BuildCompletedSuccess, "\n",
                  BuildStarted, "\n", BuildCompletedError, "\n">>

-----------------------------------------------------------------------------
(* pluginSystem.Configure and PluginList.insert.                           *)

besideConfigure == <<bridgeVars, callerVars, attachPc, argsVars, idVars,
                     restartVars, ibazelVars, besPluginVars, setVars,
                     customVars, hookVars>>

\* Configure is called: UnmarshalPluginConfig fails, or it yields the
\* plugins and one goroutine is started for each.
ConfigureStart(ok, n) ==
    /\ configureRet = "none"
    /\ IF ok
       THEN /\ plugins' = 1..n
            /\ setupPc' = [g \in 1..MaxPlugins |->
                              IF g \in 1..n THEN "new" ELSE "none"]
            /\ configureRet' = "running"
       ELSE /\ configureRet' = "error"
            /\ UNCHANGED <<plugins, setupPc>>
    /\ UNCHANGED <<mutex, head, tail, next, besideConfigure>>

\* ps.clientFactory.New(p, streams): an error, no plugin, or a plugin.
New(g, outcome) ==
    /\ setupPc[g] = "new"
    /\ setupPc' = [setupPc EXCEPT ![g] =
                      CASE outcome = "plugin" -> "marshal"
                        [] outcome = "nil" -> "skipped"
                        [] OTHER -> "failed"]
    /\ UNCHANGED <<plugins, mutex, head, tail, next, configureRet,
                   besideConfigure>>

\* yaml.Marshal(p.Properties).
Marshal(g, ok) ==
    /\ setupPc[g] = "marshal"
    /\ setupPc' = [setupPc EXCEPT ![g] = IF ok THEN "setup" ELSE "failed"]
    /\ UNCHANGED <<plugins, mutex, head, tail, next, configureRet,
                   besideConfigure>>

\* aspectplugin.Setup(setupConfig).
Setup(g, ok) ==
    /\ setupPc[g] = "setup"
    /\ setupPc' = [setupPc EXCEPT ![g] = IF ok THEN "lock" ELSE "failed"]
    /\ UNCHANGED <<plugins, mutex, head, tail, next, configureRet,
                   besideConfigure>>

\* A faulty variant: the mutex does not exclude.
LockNotExclusive(g) ==
    /\ setupPc[g] = "lock"
    /\ mutex' = g
    /\ setupPc' = [setupPc EXCEPT ![g] = "insert"]
    /\ UNCHANGED <<plugins, head, tail, next, configureRet, besideConfigure>>

\* mutex.Lock().
Lock(g) ==
    /\ setupPc[g] = "lock"
    /\ mutex = 0
    /\ mutex' = g
    /\ setupPc' = [setupPc EXCEPT ![g] = "insert"]
    /\ UNCHANGED <<plugins, head, tail, next, configureRet, besideConfigure>>

\* insert: the new node, whose payload is the plugin of goroutine g, becomes
\* the head of an empty list or the successor of the tail. l.tail.next of
\* a nil tail panics.
InsertLink(g) ==
    /\ setupPc[g] = "insert"
    /\ IF head = 0
       THEN /\ head' = g
            /\ setupPc' = [setupPc EXCEPT ![g] = "tail"]
            /\ UNCHANGED next
       ELSE IF tail # 0
       THEN /\ next' = [next EXCEPT ![tail] = g]
            /\ setupPc' = [setupPc EXCEPT ![g] = "tail"]
            /\ UNCHANGED head
       ELSE /\ setupPc' = [setupPc EXCEPT ![g] = "panicked"]
            /\ UNCHANGED <<head, next>>
    /\ UNCHANGED <<plugins, mutex, tail, configureRet, besideConfigure>>

\* insert: l.tail = node.
InsertTail(g) ==
    /\ setupPc[g] = "tail"
    /\ tail' = g
    /\ setupPc' = [setupPc EXCEPT ![g] = "unlock"]
    /\ UNCHANGED <<plugins, mutex, head, next, configureRet, besideConfigure>>

\* mutex.Unlock(), and the goroutine returns nil.
Unlock(g) ==
    /\ setupPc[g] = "unlock"
    /\ mutex' = 0
    /\ setupPc' = [setupPc EXCEPT ![g] = "done"]
    /\ UNCHANGED <<plugins, head, tail, next, configureRet, besideConfigure>>

\* g.Wait() returns when every goroutine has returned, with the first error
\* a goroutine returned.
ConfigureReturns ==
    /\ configureRet = "running"
    /\ \A g \in plugins : setupPc[g] \in {"done", "skipped", "failed"}
    /\ configureRet' = IF \E g \in plugins : setupPc[g] = "failed"
                       THEN "error"
                       ELSE "nil"
    /\ UNCHANGED <<plugins, setupPc, mutex, head, tail, next,
                   besideConfigure>>

NextConfigure ==
    \/ \E ok \in BOOLEAN, n \in 0..MaxPlugins : ConfigureStart(ok, n)
    \/ \E g \in 1..MaxPlugins, outcome \in {"plugin", "nil", "error"} :
            New(g, outcome)
    \/ \E g \in 1..MaxPlugins, ok \in BOOLEAN : Marshal(g, ok)
    \/ \E g \in 1..MaxPlugins, ok \in BOOLEAN : Setup(g, ok)
    \/ \E g \in 1..MaxPlugins : Lock(g)
    \/ \E g \in 1..MaxPlugins : InsertLink(g)
    \/ \E g \in 1..MaxPlugins : InsertTail(g)
    \/ \E g \in 1..MaxPlugins : Unlock(g)
    \/ ConfigureReturns

SpecConfigure == Init /\ [][NextConfigure]_vars

\* The nodes reached from node n by at most k steps along next.
RECURSIVE ChainFrom(_, _)
ChainFrom(n, k) ==
    IF n = 0 \/ k = 0 THEN <<>> ELSE <<n>> \o ChainFrom(next[n], k - 1)

\* The plugin list as the loops over it see it:
\* for node := ps.plugins.head; node != nil; node = node.next.
PluginChain == ChainFrom(head, MaxPlugins + 1)

\* C34: whatever the interleaving of the goroutines of Configure, the list
\* holds exactly the plugins whose goroutine has linked its node, each
\* once; between insertions it is a chain from head that ends at tail;
\* no goroutine panics; and once Configure has returned, every plugin
\* whose creation and Setup succeeded is in the list, and Configure
\* returned an error if the creation or the Setup of some plugin failed.
C34_ConfigureLosesNoPlugin ==
    /\ \A g \in 1..MaxPlugins : setupPc[g] # "panicked"
    /\ Len(PluginChain) <= MaxPlugins
    /\ \A i, j \in 1..Len(PluginChain) :
            PluginChain[i] = PluginChain[j] => i = j
    /\ {PluginChain[i] : i \in 1..Len(PluginChain)} =
            {g \in 1..MaxPlugins : setupPc[g] \in {"tail", "unlock", "done"}}
    /\ mutex = 0 =>
            /\ (head = 0) = (tail = 0)
            /\ head # 0 => /\ tail = PluginChain[Len(PluginChain)]
                           /\ next[tail] = 0
    /\ configureRet \in {"nil", "error"} =>
            /\ mutex = 0
            /\ \A g \in plugins : setupPc[g] \in {"done", "skipped", "failed"}
            /\ (\E g \in plugins : setupPc[g] = "failed") =>
                    configureRet = "error"

\* Three plugins were set up; the last of the configuration was inserted
\* first and the first last.
C34_Witness ==
    /\ configureRet = "nil"
    /\ PluginChain = <<3, 2, 1>>
    /\ tail = 1

-----------------------------------------------------------------------------
(* pluginSystem.BESPluginInterceptor and createBesInterceptor.             *)

besideBesPlugin == <<bridgeVars, callerVars, attachPc, argsVars, idVars,
                     restartVars, ibazelVars, configureVars, setVars,
                     customVars, hookVars>>

\* hasBESPlugins: some node of the list has DisableBESEvents unset.
HasBESPlugins ==
    \E i \in 1..Len(PluginChain) : ~disableBES[PluginChain[i]]

\* A faulty variant: the plugins are not looked at.
BESPluginCallIgnoresPlugins(flagOk, force, env, disabled) ==
    /\ bpPc = "idle"
    /\ configureRet = "nil"
    /\ forceBesBackend' = force
    /\ usePipeEnv' = env
    /\ disableBES' = disabled
    /\ IF ~flagOk
       THEN /\ bpPc' = "returned"
            /\ bpRet' = "failed to get value of --aspect:force_bes_backend"
            /\ UNCHANGED nextCtx
       ELSE IF ~force
       THEN /\ bpPc' = "next"
            /\ nextCtx' = "none"
            /\ UNCHANGED bpRet
       ELSE /\ bpPc' = "setup"
            /\ UNCHANGED <<nextCtx, bpRet>>
    /\ UNCHANGED <<besInterceptor, besSubscribers, nextErr, stopped,
                   besideBesPlugin>>

\* The interceptor is called: it reads the flag, and either fails, or calls
\* next with the ctx it was given, or goes on to createBesInterceptor. The
\* plugins' DisableBESEvents and the environment are read as they are.
BESPluginCall(flagOk, force, env, disabled) ==
    /\ bpPc = "idle"
    /\ configureRet = "nil"
    /\ forceBesBackend' = force
    /\ usePipeEnv' = env
    /\ disableBES' = disabled
    /\ IF ~flagOk
       THEN /\ bpPc' = "returned"
            /\ bpRet' = "failed to get value of --aspect:force_bes_backend"
            /\ UNCHANGED nextCtx
       ELSE IF ~(force \/ \E i \in 1..Len(PluginChain) :
                             ~disabled[PluginChain[i]])
       THEN /\ bpPc' = "next"
            /\ nextCtx' = "none"
            /\ UNCHANGED bpRet
       ELSE /\ bpPc' = "setup"
            /\ UNCHANGED <<nextCtx, bpRet>>
    /\ UNCHANGED <<besInterceptor, besSubscribers, nextErr, stopped,
                   besideBesPlugin>>

\* usePipe := os.Getenv("ASPECT_BEP_USE_PIPE") != "".
UsePipe == usePipeEnv # ""

\* setupBesPipe or setupBesBackend.
SetupBes(ok) ==
    /\ bpPc = "setup"
    /\ IF ok
       THEN /\ besInterceptor' = IF UsePipe THEN "pipe" ELSE "grpc"
            /\ bpPc' = "serve"
            /\ UNCHANGED bpRet
       ELSE /\ bpPc' = "returned"
            /\ bpRet' = "setup error"
            /\ UNCHANGED besInterceptor
    /\ UNCHANGED <<forceBesBackend, usePipeEnv, disableBES, besSubscribers,
                   nextCtx, nextErr, stopped, besideBesPlugin>>

\* besInterceptor.ServeWait(ctx); GracefulStop is deferred after it has
\* returned nil.
BesServeWait(ok) ==
    /\ bpPc = "serve"
    /\ IF ok
       THEN /\ bpPc' = "subscribers"
            /\ UNCHANGED bpRet
       ELSE /\ bpPc' = "returned"
            /\ bpRet' = "failed to run BES backend"
    /\ UNCHANGED <<forceBesBackend, usePipeEnv, disableBES, besInterceptor,
                   besSubscribers, nextCtx, nextErr, stopped,
                   besideBesPlugin>>

\* The plugins of q that have BES events enabled, in the order of q.
RECURSIVE Enabled(_)
Enabled(q) ==
    IF q = <<>>
    THEN <<>>
    ELSE (IF disableBES[Head(q)] THEN <<>> ELSE <<Head(q)>>)
            \o Enabled(Tail(q))

\* The loop over the plugins that calls RegisterSubscriber, and
\* InjectBESInterceptor; then next is called with the new ctx.
BesInject ==
    /\ bpPc = "subscribers"
    /\ besSubscribers' = Enabled(PluginChain)
    /\ nextCtx' = besInterceptor
    /\ bpPc' = "next"
    /\ UNCHANGED <<forceBesBackend, usePipeEnv, disableBES, besInterceptor,
                   nextErr, stopped, bpRet, besideBesPlugin>>

\* next returns. On the short circuit its result is the interceptor's.
BesNextReturns(ok) ==
    /\ bpPc = "next"
    /\ nextErr' = IF ok THEN "nil" ELSE "error"
    /\ IF nextCtx = "none"
       THEN /\ bpPc' = "returned"
            /\ bpRet' = IF ok THEN "nil" ELSE "error"
       ELSE /\ bpPc' = "stop"
            /\ UNCHANGED bpRet
    /\ UNCHANGED <<forceBesBackend, usePipeEnv, disableBES, besInterceptor,
                   besSubscribers, nextCtx, stopped, besideBesPlugin>>

\* The deferred besInterceptor.GracefulStop() is called, and
\* createBesInterceptor returns what next returned.
BesGracefulStop ==
    /\ bpPc = "stop"
    /\ stopped' = TRUE
    /\ bpRet' = nextErr
    /\ bpPc' = "returned"
    /\ UNCHANGED <<forceBesBackend, usePipeEnv, disableBES, besInterceptor,
                   besSubscribers, nextCtx, nextErr, besideBesPlugin>>

NextBesPlugin ==
    \/ \E flagOk, force \in BOOLEAN, env \in {"", "1"},
          disabled \in [1..MaxPlugins -> BOOLEAN] :
            BESPluginCall(flagOk, force, env, disabled)
    \/ \E ok \in BOOLEAN : SetupBes(ok)
    \/ \E ok \in BOOLEAN : BesServeWait(ok)
    \/ BesInject
    \/ \E ok \in BOOLEAN : BesNextReturns(ok)
    \/ BesGracefulStop

\* Configure, and then a command run through the BESPluginInterceptor.
SpecBesPlugin == Init /\ [][NextConfigure \/ NextBesPlugin]_vars

\* C35: when next is called, the ctx it gets carries no interceptor, and
\* none was created, exactly when the force flag is unset and no plugin of
\* the list has BES events enabled. An interceptor that was created is the
\* pipe one exactly when ASPECT_BEP_USE_PIPE is not empty; it is the one in
\* the ctx given to next; and after next has returned, with an error or
\* without, GracefulStop is called before the interceptor returns what
\* next returned.
C35_BESPluginInterceptor ==
    /\ nextCtx # "not called" =>
            /\ (nextCtx = "none") = (~forceBesBackend /\ ~HasBESPlugins)
            /\ nextCtx = besInterceptor
    /\ besInterceptor # "none" =>
            /\ forceBesBackend \/ HasBESPlugins
            /\ (besInterceptor = "pipe") = (usePipeEnv # "")
            /\ (besInterceptor = "grpc") = (usePipeEnv = "")
    /\ stopped => nextErr # "none" /\ nextCtx = besInterceptor
    /\ (bpPc = "returned" /\ nextCtx # "not called") =>
            /\ nextErr # "none"
            /\ bpRet = nextErr
            /\ stopped = (nextCtx # "none")
    /\ (bpPc # "idle" /\ ~forceBesBackend /\ ~HasBESPlugins) =>
            /\ besInterceptor = "none"
            /\ ~stopped
            /\ bpPc \in {"next", "returned"}
            /\ (bpPc = "next" \/ nextCtx = "none" \/
                    bpRet = "failed to get value of --aspect:force_bes_backend")

\* Two plugins, one of them with BES events enabled, no force flag: the
\* pipe interceptor was created, next returned an error and GracefulStop
\* was called.
C35_Witness ==
    /\ bpPc = "returned"
    /\ ~forceBesBackend
    /\ Len(PluginChain) = 2
    /\ besSubscribers = <<PluginChain[2]>>
    /\ nextCtx = "pipe"
    /\ nextErr = "error"
    /\ bpRet = "error"
    /\ stopped

-----------------------------------------------------------------------------
(* flags.ParseSet. A string is a sequence of characters.                   *)

besideSet == <<bridgeVars, callerVars, attachPc, argsVars, idVars,
               restartVars, ibazelVars, configureVars, besPluginVars,
               customVars, hookVars>>

\* The characters of the arguments.
Chars == {"+", "-", ",", "a", "b"}

\* The strings of at most n characters.
SetStrings(n) == UNION {[1..k -> Chars] : k \in 0..n}

\* The values of the base.
BaseValues == {<<"a">>, <<"b">>}

\* strings.SplitSeq(val, ","): the parts between the commas, in order; a
\* string without a comma is its only part.
RECURSIVE SplitSeq(_)
SplitSeq(val) ==
    IF \A i \in 1..Len(val) : val[i] # ","
    THEN <<val>>
    ELSE LET i == CHOOSE i \in 1..Len(val) :
                    /\ val[i] = ","
                    /\ \A j \in 1..(i - 1) : val[j] # ","
         IN  <<SubSeq(val, 1, i - 1)>> \o SplitSeq(SubSeq(val, i + 1, Len(val)))

\* make(map[string]bool)
EmptyMap == [k \in {} |-> TRUE]

\* resultSet[k] = v
Put(m, k, v) == [x \in DOMAIN m \cup {k} |-> IF x = k THEN v ELSE m[x]]

\* delete(resultSet, k)
DeleteKey(m, k) == [x \in DOMAIN m \ {k} |-> m[x]]

\* resultSet[k], false for a key that is not in the map
Lookup(m, k) == k \in DOMAIN m /\ m[k]

\* A faulty variant: a plain part is added to the set.
ApplyPartNoReset(m, part) ==
    IF part = <<>>
    THEN m
    ELSE IF HasPrefix(part, <<"+">>)
    THEN Put(m, TrimPrefix(part, <<"+">>), TRUE)
    ELSE IF HasPrefix(part, <<"-">>)
    THEN DeleteKey(m, TrimPrefix(part, <<"-">>))
    ELSE Put(m, part, TRUE)

\* The body of the loop over the parts of an argument.
ApplyPart(m, part) ==
    IF part = <<>>
    THEN m
    ELSE IF HasPrefix(part, <<"+">>)
    THEN Put(m, TrimPrefix(part, <<"+">>), TRUE)
    ELSE IF HasPrefix(part, <<"-">>)
    THEN DeleteKey(m, TrimPrefix(part, <<"-">>))
    ELSE Put(EmptyMap, part, TRUE)

\* The loop over the parts of one argument.
RECURSIVE ApplyParts(_, _)
ApplyParts(m, parts) ==
    IF parts = <<>>
    THEN m
    ELSE ApplyParts(ApplyPart(m, Head(parts)), Tail(parts))

\* The loop over the arguments.
RECURSIVE ApplyArgs(_, _)
ApplyArgs(m, list) ==
    IF list = <<>>
    THEN m
    ELSE ApplyArgs(ApplyParts(m, SplitSeq(Head(list))), Tail(list))

\* The loop that initializes resultSet with the base.
RECURSIVE BaseMap(_)
BaseMap(list) ==
    IF list = <<>>
    THEN EmptyMap
    ELSE Put(BaseMap(SubSeq(list, 1, Len(list) - 1)), list[Len(list)], TRUE)

\* A faulty variant: a value of the base is not marked as processed.
MarkNothing(m, k) == m

\* resultSet[k] = false
MarkProcessed(m, k) == Put(m, k, FALSE)

\* The loop over the base that appends the values of the base that are in
\* the set: the values appended, and the map that is left.
RECURSIVE InBaseOrder(_, _)
InBaseOrder(list, m) ==
    IF list = <<>>
    THEN [res |-> <<>>, resultSet |-> m]
    ELSE IF Lookup(m, Head(list))
    THEN LET rest == InBaseOrder(Tail(list), MarkProcessed(m, Head(list)))
         IN  [res |-> <<Head(list)>> \o rest.res,
              resultSet |-> rest.resultSet]
    ELSE InBaseOrder(Tail(list), m)

\* for k, v := range resultSet: the keys of a map are visited once each,
\* in an order that is not specified.
Orders(m) ==
    {q \in [1..Cardinality(DOMAIN m) -> DOMAIN m] :
        \A i, j \in 1..Len(q) : q[i] = q[j] => i = j}

\* The loop over resultSet that appends the keys whose value is true.
RECURSIVE NewItems(_, _)
NewItems(m, q) ==
    IF q = <<>>
    THEN <<>>
    ELSE (IF m[Head(q)] THEN <<Head(q)>> ELSE <<>>) \o NewItems(m, Tail(q))

\* ParseSet(base, args), the map being visited in the order q.
ParseSet(base, list, q) ==
    LET kept == InBaseOrder(base, ApplyArgs(BaseMap(base), list))
    IN  kept.res \o NewItems(kept.resultSet, q)

\* ParseSet is called and returns.
CallParseSet ==
    /\ setRes = NotCalled
    /\ \E q \in Orders(InBaseOrder(setBase,
                    ApplyArgs(BaseMap(setBase), setArgs)).resultSet) :
            setRes' = [status |-> "returned",
                       res |-> ParseSet(setBase, setArgs, q)]
    /\ UNCHANGED <<setBase, setArgs, besideSet>>

\* Any base of at most MaxBase values and any list of at most MaxSetArgs
\* arguments of at most MaxArgLen characters.
InitSet ==
    /\ InitSession
    /\ args = <<>>
    /\ ret = NotCalled
    /\ \E n \in 0..MaxBase : setBase \in [1..n -> BaseValues]
    /\ \E n \in 0..MaxSetArgs : setArgs \in [1..n -> SetStrings(MaxArgLen)]
    /\ setRes = NotCalled

NextSet == CallParseSet

SpecSet == InitSet /\ [][NextSet]_vars

\* What a part does to a set of values: "+x" adds x, "-x" removes x, an
\* empty part nothing, and any other part x leaves {x}.
PartOnSet(S, part) ==
    IF part = <<>>
    THEN S
    ELSE IF part[1] = "+"
    THEN S \cup {Tail(part)}
    ELSE IF part[1] = "-"
    THEN S \ {Tail(part)}
    ELSE {part}

\* The set after the first n of the parts.
RECURSIVE SetAfter(_, _, _)
SetAfter(S, parts, n) ==
    IF n = 0 THEN S ELSE PartOnSet(SetAfter(S, parts, n - 1), parts[n])

\* The parts of all the arguments, in order.
RECURSIVE AllParts(_)
AllParts(list) ==
    IF list = <<>> THEN <<>> ELSE SplitSeq(Head(list)) \o AllParts(Tail(list))

\* The final set of a call.
FinalSet ==
    SetAfter(Range(setBase), AllParts(setArgs), Len(AllParts(setArgs)))

\* C36: the result of ParseSet has exactly the members of the set got from
\* the values of base by processing the parts of the arguments from left
\* to right, and has each of them once.
C36_ParseSetMembers ==
    setRes.status = "returned" =>
        /\ Range(setRes.res) = FinalSet
        /\ \A i, j \in 1..Len(setRes.res) :
                setRes.res[i] = setRes.res[j] => i = j

\* One value of the base is removed and a new value is added.
C36_Witness ==
    /\ setRes.status = "returned"
    /\ setBase = <<<<"a">>, <<"b">>>>
    /\ setArgs = << <<"-", "a">>, <<"+", "a", "b">> >>
    /\ setRes.res = << <<"b">>, <<"a", "b">> >>

\* The values of list, each at the place of its first occurrence.
FirstOccurrences(list) ==
    LET first(i) == \A j \in 1..(i - 1) : list[j] # list[i]
        RECURSIVE upTo(_)
        upTo(i) ==
            IF i = 0
            THEN <<>>
            ELSE upTo(i - 1) \o (IF first(i) THEN <<list[i]>> ELSE <<>>)
    IN  upTo(Len(list))

\* The values of list that are in S, in the order of list.
RECURSIVE Those(_, _)
Those(list, S) ==
    IF list = <<>>
    THEN <<>>
    ELSE (IF Head(list) \in S THEN <<Head(list)>> ELSE <<>>)
            \o Those(Tail(list), S)

\* C37: the result of ParseSet begins with its members that occur in
\* base, in the order of their first occurrence in base, and the members
\* that follow do not occur in base; with no arguments the result is base
\* without the repetitions.
C37_ParseSetKeepsBaseOrder ==
    setRes.status = "returned" =>
        LET kept == Those(FirstOccurrences(setBase), Range(setRes.res))
        IN  /\ Len(setRes.res) >= Len(kept)
            /\ SubSeq(setRes.res, 1, Len(kept)) = kept
            /\ \A i \in (Len(kept) + 1)..Len(setRes.res) :
                    setRes.res[i] \notin Range(setBase)
            /\ setArgs = <<>> => setRes.res = FirstOccurrences(setBase)

\* The first value of the base was removed and added again: it is
\* the first of the result.
C37_Witness ==
    /\ setRes.status = "returned"
    /\ setBase = <<<<"a">>, <<"b">>>>
    /\ setArgs = << <<"-", "a">>, <<"+", "a">> >>
    /\ setRes.res = << <<"a">>, <<"b">> >>

-----------------------------------------------------------------------------
(* pluginSystem.RegisterCustomCommands. A Use is a sequence of words.      *)

besideCustom == <<bridgeVars, callerVars, attachPc, argsVars, idVars,
                  restartVars, ibazelVars, configureVars, besPluginVars,
                  setVars, hookVars>>

\* The Use of the commands a plugin may declare.
PluginUses == {<<"build", "//...">>, <<"test">>, <<"hello">>,
               <<"lint", "<target>">>}

\* What CustomCommands may return: at most MaxCommands commands.
Declarations == UNION {[1..n -> PluginUses] : n \in 0..MaxCommands}

\* A faulty variant: the name is the last word of Use.
LastWord(use) == use[Len(use)]

\* strings.SplitN(command.Use, " ", 2)[0]
CmdName(use) == use[1]

\* RegisterCustomCommands is called: the names of the commands cmd has.
RegisterCall ==
    /\ customPc = "idle"
    /\ configureRet = "nil"
    /\ internalCommands' = {CmdName(commands[i]) : i \in 1..Len(commands)}
    /\ customNode' = head
    /\ customPc' = "loop"
    /\ UNCHANGED <<commands, declared, customRet, besideCustom>>

\* The commands of list that come before the first one with a protected
\* name: those the inner loop adds.
RECURSIVE Added(_)
Added(list) ==
    IF list = <<>> \/ CmdName(Head(list)) \in internalCommands
    THEN <<>>
    ELSE <<Head(list)>> \o Added(Tail(list))

\* One round of the loop over the plugins: CustomCommands is called; its
\* commands are added in order up to the first one with a protected name.
RegisterPlugin(ok, result) ==
    /\ customPc = "loop"
    /\ customNode # 0
    /\ declared' = Append(declared, [ok |-> ok, result |-> result])
    /\ IF ~ok
       THEN /\ customRet' = "failed to register custom commands"
            /\ customPc' = "returned"
            /\ UNCHANGED <<commands, customNode>>
       ELSE /\ commands' = commands \o Added(result)
            /\ IF Len(Added(result)) < Len(result)
               THEN /\ customRet' = "protected name"
                    /\ customPc' = "returned"
                    /\ UNCHANGED customNode
               ELSE /\ customNode' = next[customNode]
                    /\ UNCHANGED <<customRet, customPc>>
    /\ UNCHANGED <<internalCommands, besideCustom>>

\* The loop has reached the end of the list.
RegisterReturns ==
    /\ customPc = "loop"
    /\ customNode = 0
    /\ customRet' = "nil"
    /\ customPc' = "returned"
    /\ UNCHANGED <<commands, internalCommands, customNode, declared,
                   besideCustom>>

NextCustom ==
    \/ RegisterCall
    \/ \E ok \in BOOLEAN, result \in Declarations : RegisterPlugin(ok, result)
    \/ RegisterReturns

\* Configure, and then RegisterCustomCommands.
SpecCustom == Init /\ [][NextConfigure \/ NextCustom]_vars

\* The commands cmd has before the call.
BuiltIn == <<<<"build", "<target>">>, <<"test">>>>

\* The first word of the Use of a built-in command.
Protected == {"build", "test"}

\* The commands of the first n declarations, in order.
RECURSIVE DeclaredUpTo(_)
DeclaredUpTo(n) ==
    IF n = 0 THEN <<>> ELSE DeclaredUpTo(n - 1) \o declared[n].result

\* A declaration has a command with a protected name.
HasProtected(d) == \E i \in 1..Len(d.result) : d.result[i][1] \in Protected

\* C38: no command whose name is the name of a built-in command is ever
\* added, and the built-in commands stay; RegisterCustomCommands returns
\* an error if a CustomCommands call failed or a plugin declared a command
\* with such a name, and then it asks no further plugin; it returns nil
\* only after asking every plugin of the list, in order, and adding all
\* their commands.
C38_ProtectedNamesRejected ==
    /\ SubSeq(commands, 1, Len(BuiltIn)) = BuiltIn
    /\ \A i \in (Len(BuiltIn) + 1)..Len(commands) :
            commands[i][1] \notin Protected
    /\ \A i \in 1..(Len(declared) - 1) :
            declared[i].ok /\ ~HasProtected(declared[i])
    /\ (declared # <<>> /\ ~declared[Len(declared)].ok) =>
            /\ customPc = "returned"
            /\ customRet = "failed to register custom commands"
            /\ commands = BuiltIn \o DeclaredUpTo(Len(declared) - 1)
    /\ (declared # <<>> /\ declared[Len(declared)].ok
            /\ HasProtected(declared[Len(declared)])) =>
            /\ customPc = "returned"
            /\ customRet = "protected name"
    /\ customRet = "nil" =>
            /\ Len(declared) = Len(PluginChain)
            /\ commands = BuiltIn \o DeclaredUpTo(Len(declared))

\* The first plugin's command was added; the second plugin declared a
\* command named as a built-in one after another command: the call
\* returned an error and that command was not added.
C38_Witness ==
    /\ customRet = "protected name"
    /\ Len(declared) = 2
    /\ declared[1].result = <<<<"hello">>>>
    /\ declared[2].result = <<<<"lint", "<target>">>, <<"build", "//...">>>>
    /\ commands = BuiltIn \o <<<<"hello">>, <<"lint", "<target>">>>>

-----------------------------------------------------------------------------
(* pluginSystem.commandHooksInterceptor.                                   *)

besideHooks == <<bridgeVars, callerVars, attachPc, argsVars, idVars,
                 restartVars, ibazelVars, configureVars, besPluginVars,
                 setVars, customVars>>

\* What next may return: nil, an error that is or wraps an
\* aspecterrors.ExitError with its exit code, or another error.
NextResults ==
    {[kind |-> "nil", code |-> 0], [kind |-> "error", code |-> 0],
     [kind |-> "ExitError", code |-> 1], [kind |-> "ExitError", code |-> 3]}

\* The interceptor is called: it reads the interactive flag, and returns
\* an error if that fails; else it calls next, the hooks being deferred.
HooksCall(flagOk) ==
    /\ hookPc = "idle"
    /\ configureRet = "nil"
    /\ IF flagOk
       THEN /\ hookPc' = "next"
            /\ UNCHANGED exitErr
       ELSE /\ hookPc' = "returned"
            /\ exitErr' = [kind |-> "failed to run command", code |-> 0]
    /\ UNCHANGED <<hookNode, hooksRun, hasPluginErrors, hookNext,
                   besideHooks>>

\* next returns; its result is assigned to exitErr and the deferred
\* function begins its loop at the head of the list.
HooksNextReturns(result) ==
    /\ hookPc = "next"
    /\ hookNext' = result
    /\ exitErr' = result
    /\ hookNode' = head
    /\ hasPluginErrors' = FALSE
    /\ hookPc' = "hooks"
    /\ UNCHANGED <<hooksRun, besideHooks>>

\* A faulty variant: the loop ends at the first hook that fails.
RunHookUntilFailure(ok) ==
    /\ hookPc = "hooks"
    /\ hookNode # 0
    /\ hooksRun' = Append(hooksRun, hookNode)
    /\ hasPluginErrors' = (hasPluginErrors \/ ~ok)
    /\ hookNode' = IF ok THEN next[hookNode] ELSE 0
    /\ UNCHANGED <<hookPc, hookNext, exitErr, besideHooks>>

\* One round of the loop: the hook of the node's plugin is called.
RunHook(ok) ==
    /\ hookPc = "hooks"
    /\ hookNode # 0
    /\ hooksRun' = Append(hooksRun, hookNode)
    /\ hasPluginErrors' = (hasPluginErrors \/ ~ok)
    /\ hookNode' = next[hookNode]
    /\ UNCHANGED <<hookPc, hookNext, exitErr, besideHooks>>

\* The loop has ended: if a hook failed and errors.As finds an ExitError
\* in exitErr, its ExitCode is set to 1. The interceptor returns exitErr.
HooksReturn ==
    /\ hookPc = "hooks"
    /\ hookNode = 0
    /\ exitErr' = IF hasPluginErrors /\ exitErr.kind = "ExitError"
                  THEN [exitErr EXCEPT !.code = 1]
                  ELSE exitErr
    /\ hookPc' = "returned"
    /\ UNCHANGED <<hookNode, hooksRun, hasPluginErrors, hookNext,
                   besideHooks>>

NextHooks ==
    \/ \E flagOk \in BOOLEAN : HooksCall(flagOk)
    \/ \E result \in NextResults : HooksNextReturns(result)
    \/ \E ok \in BOOLEAN : RunHook(ok)
    \/ HooksReturn

\* Configure, and then a command run through the hooks interceptor.
SpecHooks == Init /\ [][NextConfigure \/ NextHooks]_vars

\* C39: hooks are called only after next has returned, in the order of
\* the plugin list; when the interceptor returns after calling next, the
\* hook of every plugin of the list has been called, whatever next
\* returned and whichever hooks failed, and the value returned is the
\* error next returned, with exit code 1 if it is an ExitError and a hook
\* failed, and unchanged otherwise.
C39_HooksAlwaysRun ==
    /\ hooksRun # <<>> => hookNext.kind # "not called"
    /\ Len(hooksRun) <= Len(PluginChain)
    /\ hooksRun = SubSeq(PluginChain, 1, Len(hooksRun))
    /\ (hookPc = "returned" /\ hookNext.kind # "not called") =>
            /\ hooksRun = PluginChain
            /\ exitErr.kind = hookNext.kind
            /\ exitErr.code =
                    IF hasPluginErrors /\ hookNext.kind = "ExitError"
                    THEN 1
                    ELSE hookNext.code
    /\ (hookPc = "returned" /\ hookNext.kind = "not called") =>
            /\ hooksRun = <<>>
            /\ exitErr.kind = "failed to run command"

\* next returned an ExitError with exit code 3 and a hook failed, and
\* the hooks of all three plugins were called: the interceptor returned
\* the ExitError with exit code 1.
C39_Witness ==
    /\ hookPc = "returned"
    /\ hookNext = [kind |-> "ExitError", code |-> 3]
    /\ hasPluginErrors
    /\ hooksRun = <<2, 3, 1>>
    /\ exitErr = [kind |-> "ExitError", code |-> 1]

=============================================================================
